---- MODULE Spec2Model ----
(***************************************************************************)
(* Supply chain analytics engine (src/src/analytics.py).                   *)
(*                                                                         *)
(* The state is the set of tables an analytics object holds after          *)
(* construction, the data directory as it is now, and the table returned   *)
(* by the last analysis call.                                              *)
(* Every analysis operation is one action that computes its whole result   *)
(* from the loaded tables.                                                 *)
(*                                                                         *)
(* Floating point values are modelled as exact rationals <<n, d>> in       *)
(* lowest terms with d > 0.  The non-finite values a division can produce  *)
(* are kept apart: NaN is <<0, 0>>, +inf is <<1, 0>>, -inf is <<-1, 0>>.   *)
(* Dates are day numbers, NaT is a missing date.                           *)
(***************************************************************************)
EXTENDS Integers, Sequences, FiniteSets, TLC

VARIABLES
    products,              \* products.csv
    warehouses,            \* warehouses.csv
    inventory,             \* inventory.csv
    sales_orders,          \* sales_orders.csv
    sales_order_items,     \* sales_order_items.csv
    suppliers,             \* suppliers.csv
    purchase_orders,       \* purchase_orders.csv
    purchase_order_items,  \* purchase_order_items.csv
    stockout_events,       \* stockout_events.csv
    disk,                  \* the data files, as they are on disk now
    scoring_input,         \* rows of rates handed to the row scoring
    result                 \* the table returned by the last call

tables == <<products, warehouses, inventory, sales_orders, sales_order_items,
            suppliers, purchase_orders, purchase_order_items, stockout_events>>

vars == <<products, warehouses, inventory, sales_orders, sales_order_items,
          suppliers, purchase_orders, purchase_order_items, stockout_events,
          disk, scoring_input, result>>

(***************************************************************************)
(* Bounds of the model.                                                    *)
(***************************************************************************)
MaxOrders == 2
MaxPOs == 2
MaxEvents == 3

(***************************************************************************)
(* Numbers.                                                                *)
(***************************************************************************)
NaN == <<0, 0>>
Inf == <<1, 0>>
NaT == -1

Abs(x) == IF x < 0 THEN -x ELSE x

RECURSIVE GCD(_, _)
GCD(a, b) == IF b = 0 THEN a ELSE GCD(b, a % b)

Sign(x) == IF x > 0 THEN 1 ELSE IF x < 0 THEN -1 ELSE 0

\* The float n/d: a rational in lowest terms, or the value IEEE division gives
\* for a zero divisor.
Rat(n, d) ==
    IF d = 0 THEN <<Sign(n), 0>>
    ELSE LET g == GCD(Abs(n), Abs(d))
             s == IF d < 0 THEN -1 ELSE 1
         IN  <<(s * n) \div g, (s * d) \div g>>

RInt(k) == <<k, 1>>
IsNaN(x) == x = NaN
IsFinite(x) == x[2] # 0

RAdd(x, y) ==
    IF IsNaN(x) \/ IsNaN(y) THEN NaN
    ELSE IF ~IsFinite(x) /\ ~IsFinite(y) THEN (IF x = y THEN x ELSE NaN)
    ELSE IF ~IsFinite(x) THEN x
    ELSE IF ~IsFinite(y) THEN y
    ELSE Rat(x[1] * y[2] + y[1] * x[2], x[2] * y[2])

RNeg(x) == <<-x[1], x[2]>>
RSub(x, y) == RAdd(x, RNeg(y))

RMul(x, y) ==
    IF IsNaN(x) \/ IsNaN(y) THEN NaN
    ELSE IF IsFinite(x) /\ IsFinite(y) THEN Rat(x[1] * y[1], x[2] * y[2])
    ELSE <<Sign(x[1]) * Sign(y[1]), 0>>

RDiv(x, y) ==
    IF IsNaN(x) \/ IsNaN(y) THEN NaN
    ELSE IF ~IsFinite(y) THEN (IF IsFinite(x) THEN <<0, 1>> ELSE NaN)
    ELSE IF ~IsFinite(x) THEN (IF y[1] < 0 THEN RNeg(x) ELSE x)
    ELSE Rat(x[1] * y[2], x[2] * y[1])

\* Comparisons: every comparison with NaN is false.
\* Finite values are compared by integer part, then by fractional part.
RLe(x, y) ==
    /\ ~IsNaN(x) /\ ~IsNaN(y)
    /\ IF IsFinite(x) /\ IsFinite(y)
       THEN LET qx == x[1] \div x[2]
                qy == y[1] \div y[2]
            IN  IF qx # qy THEN qx < qy
                ELSE (x[1] - qx * x[2]) * y[2] <= (y[1] - qy * y[2]) * x[2]
       ELSE IF ~IsFinite(x) THEN (x[1] < 0 \/ x = y)
       ELSE y[1] > 0
RLt(x, y) == RLe(x, y) /\ x # y
RGe(x, y) == RLe(y, x)
RGt(x, y) == RLt(y, x)

\* numpy/Python round(): to the nearest integer, halves to the even one.
RoundHalfEven(x) ==
    LET q == x[1] \div x[2]
        r == x[1] - q * x[2]
    IN  IF 2 * r < x[2] THEN q
        ELSE IF 2 * r > x[2] THEN q + 1
        ELSE IF q % 2 = 0 THEN q ELSE q + 1

\* round(x, k decimals), as a rational.
RoundDec(x, scale) ==
    IF ~IsFinite(x) THEN x
    ELSE Rat(RoundHalfEven(Rat(x[1] * scale, x[2])), scale)

RECURSIVE IsqrtIter(_, _)
IsqrtIter(n, x) ==
    LET y == (x + n \div x) \div 2
    IN  IF y >= x THEN x ELSE IsqrtIter(n, y)

\* The integer part of the square root of a natural number.
Isqrt(n) == IF n = 0 THEN 0 ELSE IsqrtIter(n, n)

\* a + z * sqrt(x) >= c and a + z * sqrt(x) > c, for finite a, z, c and x >= 0,
\* decided exactly by comparing squares.
SqrtFormGe(a, z, x, c) ==
    LET t == RSub(c, a)
        w == RMul(RMul(z, z), x)
        tt == RMul(t, t)
    IN  IF z[1] >= 0 THEN t[1] <= 0 \/ RGe(w, tt)
        ELSE t[1] <= 0 /\ RLe(w, tt)

SqrtFormGt(a, z, x, c) ==
    LET t == RSub(c, a)
        w == RMul(RMul(z, z), x)
        tt == RMul(t, t)
    IN  IF z[1] >= 0 THEN t[1] < 0 \/ RGt(w, tt)
        ELSE t[1] < 0 /\ RLt(w, tt)

\* round(a + z * sqrt(x)) to an integer, halves to the even one.  With s the
\* integer part of |z| * sqrt(x), the value lies in [lo, lo + 2).
RoundSqrtForm(a, z, x) ==
    LET w == RMul(RMul(z, z), x)
        s == Isqrt(w[1] \div w[2])
        base == a[1] \div a[2]
        lo == IF z[1] >= 0 THEN base + s ELSE base - s - 1
        half == <<1, 2>>
    IN  CHOOSE k \in lo..(lo + 2) :
            /\ SqrtFormGe(a, z, x, RSub(RInt(k), half))
            /\ ~SqrtFormGt(a, z, x, RAdd(RInt(k), half))
            /\ (k % 2 # 0) => /\ SqrtFormGt(a, z, x, RSub(RInt(k), half))
                              /\ ~SqrtFormGe(a, z, x, RAdd(RInt(k), half))

(***************************************************************************)
(* Sequences (table rows in row order).                                    *)
(***************************************************************************)
RECURSIVE SumInts(_)
SumInts(s) == IF s = <<>> THEN 0 ELSE Head(s) + SumInts(Tail(s))

RECURSIVE SumRats(_)
SumRats(s) == IF s = <<>> THEN RInt(0) ELSE RAdd(Head(s), SumRats(Tail(s)))

RECURSIVE Flatten(_)
Flatten(ss) == IF ss = <<>> THEN <<>> ELSE Head(ss) \o Flatten(Tail(ss))

Range(s) == {s[i] : i \in 1..Len(s)}

\* The mean of a column, NaN when it has no value.
MeanInts(xs) == Rat(SumInts(xs), Len(xs))

\* The squared sample standard deviation of a column, NaN with fewer than two
\* values.
VarInts(xs) ==
    LET n == Len(xs)
        sum == SumInts(xs)
        sumsq == SumInts([i \in 1..n |-> xs[i] * xs[i]])
    IN  IF n < 2 THEN NaN ELSE Rat(n * sumsq - sum * sum, n * (n - 1))

\* rows['quantity_ordered'].sum()
SumQuantity(rows) == SumInts([i \in 1..Len(rows) |-> rows[i].quantity_ordered])

Last(s) == s[Len(s)]
Front(s) == SubSeq(s, 1, Len(s) - 1)

Max(S) == CHOOSE x \in S : \A y \in S : y <= x

RECURSIVE KeyLt(_, _)
\* Lexicographic order of group keys (tuples of integers of one length).
KeyLt(x, y) ==
    /\ x # <<>>
    /\ \/ Head(x) < Head(y)
       \/ Head(x) = Head(y) /\ KeyLt(Tail(x), Tail(y))

RECURSIVE Ascending(_)
\* The keys of a groupby, in the ascending order groupby returns them.
Ascending(S) ==
    IF S = {} THEN <<>>
    ELSE LET m == CHOOSE x \in S : \A y \in S : x = y \/ KeyLt(x, y)
         IN  <<m>> \o Ascending(S \ {m})

(***************************************************************************)
(* The data a dataset is drawn from.                                       *)
(***************************************************************************)
Dates == <<0, 350, 400>>

\* One line item per sales order: where it ships from and what it sells.
SaleLines == <<
    [warehouse_id |-> 1, product_id |-> 1, quantity_ordered |-> 1, unit_price |-> 30],
    [warehouse_id |-> 1, product_id |-> 1, quantity_ordered |-> 2, unit_price |-> 20],
    [warehouse_id |-> 1, product_id |-> 2, quantity_ordered |-> 1, unit_price |-> 20],
    [warehouse_id |-> 2, product_id |-> 1, quantity_ordered |-> 1, unit_price |-> 30],
    [warehouse_id |-> 1, product_id |-> 3, quantity_ordered |-> 0, unit_price |-> 5] >>

\* Kind k of sales order: a date, and either one of the lines, not cancelled,
\* or the cancelled order (which carries the second line).  The date is the major key, so a table built from
\* ascending kinds is in date order, as the order files are written.
KindsPerDate == Len(SaleLines) + 1
NumSaleKinds == Len(Dates) * KindsPerDate
SaleDate(k) == Dates[((k - 1) \div KindsPerDate) + 1]
SaleStatus(k) == IF (k - 1) % KindsPerDate = Len(SaleLines) THEN "Cancelled" ELSE "Delivered"
SaleLine(k) ==
    IF SaleStatus(k) = "Cancelled" THEN SaleLines[2]
    ELSE SaleLines[((k - 1) % KindsPerDate) + 1]

FixedProducts == <<
    [product_id |-> 1, sku |-> 1, unit_cost |-> <<180, 1>>, unit_price |-> 30, lead_time_days |-> 3,
     category_id |-> 1],
    [product_id |-> 2, sku |-> 2, unit_cost |-> <<64, 1>>, unit_price |-> 20, lead_time_days |-> 2,
     category_id |-> 1],
    [product_id |-> 3, sku |-> 3, unit_cost |-> <<10, 1>>, unit_price |-> 5, lead_time_days |-> 1,
     category_id |-> 2] >>

FixedWarehouses == <<[warehouse_id |-> 1, warehouse_code |-> 1, warehouse_name |-> 1],
                     [warehouse_id |-> 2, warehouse_code |-> 2, warehouse_name |-> 2]>>

FixedInventory == <<
    [warehouse_id |-> 1, product_id |-> 1, quantity_on_hand |-> 5, reorder_point |-> 10],
    [warehouse_id |-> 1, product_id |-> 2, quantity_on_hand |-> 0, reorder_point |-> 0],
    [warehouse_id |-> 1, product_id |-> 3, quantity_on_hand |-> 4, reorder_point |-> 4],
    [warehouse_id |-> 2, product_id |-> 1, quantity_on_hand |-> 2, reorder_point |-> 1],
    [warehouse_id |-> 2, product_id |-> 2, quantity_on_hand |-> 1, reorder_point |-> 1] >>

FixedSuppliers == <<[supplier_id |-> 1, supplier_code |-> 1, quality_rating |-> 4],
                    [supplier_id |-> 2, supplier_code |-> 2, quality_rating |-> 3]>>

FixedPurchaseOrders == <<
    [po_id |-> 1, supplier_id |-> 1, order_date |-> 390, expected_delivery_date |-> 395,
     actual_delivery_date |-> 395, status |-> "Delivered"] >>

FixedPurchaseOrderItems == <<
    [po_id |-> 1, product_id |-> 1, quantity_ordered |-> 10, quantity_received |-> 10] >>

\* product_categories.csv: the file calculate_carrying_costs reads.
\* Names are numbered, as skus and warehouse codes are.
FixedCategories == <<[category_id |-> 1, category_name |-> 10],
                     [category_id |-> 2, category_name |-> 20]>>

\* Root causes are numbered.
FixedStockoutEvents == <<
    [stockout_id |-> 1, warehouse_id |-> 1, product_id |-> 2, stockout_start_date |-> 100,
     stockout_end_date |-> 103, demand_during_stockout |-> 6, lost_sales_amount |-> <<120, 1>>,
     root_cause |-> 1],
    [stockout_id |-> 2, warehouse_id |-> 1, product_id |-> 2, stockout_start_date |-> 200,
     stockout_end_date |-> 202, demand_during_stockout |-> 3, lost_sales_amount |-> <<60, 1>>,
     root_cause |-> 2],
    [stockout_id |-> 3, warehouse_id |-> 2, product_id |-> 1, stockout_start_date |-> 150,
     stockout_end_date |-> 151, demand_during_stockout |-> 1, lost_sales_amount |-> <<3015, 100>>,
     root_cause |-> 1] >>

\* The data directory: the files that are missing from it, and the contents of
\* the two files the model lets change after the tables were loaded.  Every
\* other file holds what was loaded from it.
FixedDisk == [missing |-> {}, products |-> FixedProducts,
              product_categories |-> FixedCategories]

NoResult == [op |-> "none", args |-> <<>>, ok |-> TRUE, rows |-> <<>>]

\* __init__/_load_data of InventoryAnalytics: the tables as read from the files.
\* The sales tables range over every dataset of up to MaxOrders orders.
Init ==
    /\ products = FixedProducts
    /\ warehouses = FixedWarehouses
    /\ inventory = FixedInventory
    /\ suppliers = FixedSuppliers
    /\ purchase_orders = FixedPurchaseOrders
    /\ purchase_order_items = FixedPurchaseOrderItems
    /\ \E n \in 1..MaxOrders : \E f \in [1..n -> 1..NumSaleKinds] :
           /\ \A i \in 1..(n - 1) : f[i] <= f[i + 1]
           /\ sales_orders = [i \in 1..n |->
                  [so_id |-> i, warehouse_id |-> SaleLine(f[i]).warehouse_id,
                   order_date |-> SaleDate(f[i]), status |-> SaleStatus(f[i])]]
           /\ sales_order_items = [i \in 1..n |->
                  [so_id |-> i, product_id |-> SaleLine(f[i]).product_id,
                   quantity_ordered |-> SaleLine(f[i]).quantity_ordered,
                   unit_price |-> SaleLine(f[i]).unit_price]]
    /\ scoring_input = <<>>
    /\ stockout_events = FixedStockoutEvents
    /\ disk = FixedDisk
    /\ result = NoResult

\* One purchase order with one line item: when it was ordered, due and
\* delivered, and how much of the order was received.
PoTimings == <<
    [order_date |-> 0, expected_delivery_date |-> 5, actual_delivery_date |-> 5,
     status |-> "Delivered"],
    [order_date |-> 400, expected_delivery_date |-> 405, actual_delivery_date |-> 405,
     status |-> "Delivered"],
    [order_date |-> 400, expected_delivery_date |-> 405, actual_delivery_date |-> 407,
     status |-> "Delivered"],
    [order_date |-> 400, expected_delivery_date |-> 405, actual_delivery_date |-> 415,
     status |-> "Delivered"],
    [order_date |-> 400, expected_delivery_date |-> 405, actual_delivery_date |-> NaT,
     status |-> "Delivered"],
    [order_date |-> 400, expected_delivery_date |-> 405, actual_delivery_date |-> NaT,
     status |-> "Shipped"],
    [order_date |-> 400, expected_delivery_date |-> 401, actual_delivery_date |-> 401,
     status |-> "Delivered"],
    [order_date |-> 400, expected_delivery_date |-> 401, actual_delivery_date |-> 399,
     status |-> "Delivered"] >>

PoFills == <<[quantity_ordered |-> 10, quantity_received |-> 10],
             [quantity_ordered |-> 10, quantity_received |-> 9],
             [quantity_ordered |-> 0, quantity_received |-> 0]>>

SupplierIds == <<1, 2>>

NumPoKinds == Len(PoTimings) * Len(SupplierIds) * Len(PoFills)
PoTiming(k) == PoTimings[((k - 1) \div (Len(SupplierIds) * Len(PoFills))) + 1]
PoSupplier(k) == SupplierIds[(((k - 1) \div Len(PoFills)) % Len(SupplierIds)) + 1]
PoFill(k) == PoFills[((k - 1) % Len(PoFills)) + 1]

FixedSalesOrders == <<
    [so_id |-> 1, warehouse_id |-> 1, order_date |-> 400, status |-> "Delivered"] >>

FixedSalesOrderItems == <<
    [so_id |-> 1, product_id |-> 1, quantity_ordered |-> 1, unit_price |-> 30] >>

\* The metrics of a supplier with 96% of its orders on time, a fill rate of 99%
\* and a single delivery (no standard deviation).
ScenarioRows == <<[on_time_rate |-> <<96, 1>>, fill_rate |-> <<99, 1>>,
                   var_variance |-> <<0, 0>>]>>

\* __init__/_load_data with the purchase tables ranging over every dataset of
\* up to MaxPOs purchase orders, each with one line for product 1.
InitSup ==
    /\ products = FixedProducts
    /\ warehouses = FixedWarehouses
    /\ inventory = FixedInventory
    /\ suppliers = FixedSuppliers
    /\ sales_orders = FixedSalesOrders
    /\ sales_order_items = FixedSalesOrderItems
    /\ \E n \in 1..MaxPOs : \E f \in [1..n -> 1..NumPoKinds] :
           /\ \A i \in 1..(n - 1) : f[i] <= f[i + 1]
           /\ purchase_orders = [i \in 1..n |->
                  [po_id |-> i, supplier_id |-> PoSupplier(f[i]),
                   order_date |-> PoTiming(f[i]).order_date,
                   expected_delivery_date |-> PoTiming(f[i]).expected_delivery_date,
                   actual_delivery_date |-> PoTiming(f[i]).actual_delivery_date,
                   status |-> PoTiming(f[i]).status]]
           /\ purchase_order_items = [i \in 1..n |->
                  [po_id |-> i, product_id |-> 1,
                   quantity_ordered |-> PoFill(f[i]).quantity_ordered,
                   quantity_received |-> PoFill(f[i]).quantity_received]]
    /\ scoring_input = ScenarioRows
    /\ stockout_events = FixedStockoutEvents
    /\ disk = FixedDisk
    /\ result = NoResult

(***************************************************************************)
(* InventoryAnalytics.calculate_abc_classification                         *)
(***************************************************************************)
\* sales_orders['order_date'].max(); NaT for an empty table.
MaxOrderDate(so) ==
    IF so = <<>> THEN NaT ELSE Max({so[i].order_date : i \in 1..Len(so)})

\* The orders of the trailing window, the cancelled ones among them.
RecentSalesWithCancelled(so, lookback_days) ==
    IF so = <<>> THEN <<>>
    ELSE LET cutoff_date == MaxOrderDate(so) - lookback_days
         IN  SelectSeq(so, LAMBDA o : o.order_date >= cutoff_date)

\* The orders of the trailing window that are not cancelled (comparisons with
\* a NaT cutoff are false).
RecentSales(so, lookback_days) ==
    IF so = <<>> THEN <<>>
    ELSE LET cutoff_date == MaxOrderDate(so) - lookback_days
         IN  SelectSeq(so, LAMBDA o : o.order_date >= cutoff_date /\ o.status # "Cancelled")

\* orders.merge(items, on='so_id'): one row per matching pair, in order of the
\* left table.
MergeItems(orders, items) ==
    Flatten([i \in 1..Len(orders) |->
        LET its == SelectSeq(items, LAMBDA it : it.so_id = orders[i].so_id)
        IN  [j \in 1..Len(its) |->
                [so_id |-> orders[i].so_id, warehouse_id |-> orders[i].warehouse_id,
                 order_date |-> orders[i].order_date, status |-> orders[i].status,
                 product_id |-> its[j].product_id,
                 quantity_ordered |-> its[j].quantity_ordered,
                 unit_price |-> its[j].unit_price]]])

\* groupby('product_id').agg(quantity_ordered sum, unit_price mean), then
\* total_revenue = quantity_ordered * unit_price.
ProductRevenue(rows) ==
    LET keys == Ascending({<<rows[i].product_id>> : i \in 1..Len(rows)})
    IN  [k \in 1..Len(keys) |->
            LET g == SelectSeq(rows, LAMBDA r : r.product_id = keys[k][1])
                qty == SumInts([i \in 1..Len(g) |-> g[i].quantity_ordered])
                price == Rat(SumInts([i \in 1..Len(g) |-> g[i].unit_price]), Len(g))
            IN  [product_id |-> keys[k][1], quantity_ordered |-> qty,
                 unit_price |-> price, total_revenue |-> RMul(RInt(qty), price)]]

RECURSIVE SortByRevenueDesc(_)
\* sort_values('total_revenue', ascending=False).  Rows of equal revenue keep
\* their order (what the sort does on tables this small).
SortByRevenueDesc(rows) ==
    IF rows = <<>> THEN <<>>
    ELSE LET done == SortByRevenueDesc(Front(rows))
             x == Last(rows)
             before == SelectSeq(done, LAMBDA r : RGe(r.total_revenue, x.total_revenue))
             after == SelectSeq(done, LAMBDA r : ~RGe(r.total_revenue, x.total_revenue))
         IN  before \o <<x>> \o after

assign_class(pct, a_threshold, b_threshold) ==
    IF RLe(pct, RInt(a_threshold)) THEN "A"
    ELSE IF RLe(pct, RInt(b_threshold)) THEN "B"
    ELSE "C"

\* The percentage of the row's own revenue: the cumulative sum left out.
CumulativePctNoCumsum(sorted, i) ==
    LET total_revenue == SumRats([j \in 1..Len(sorted) |-> sorted[j].total_revenue])
    IN  RMul(RDiv(sorted[i].total_revenue, total_revenue), RInt(100))

\* cumulative_revenue / total_revenue * 100 for the first i rows.
CumulativePct(sorted, i) ==
    LET total_revenue == SumRats([j \in 1..Len(sorted) |-> sorted[j].total_revenue])
        cumulative_revenue == SumRats([j \in 1..i |-> sorted[j].total_revenue])
    IN  RMul(RDiv(cumulative_revenue, total_revenue), RInt(100))

abc_classification(so, items, prods, lookback_days, a_threshold, b_threshold) ==
    LET sales_with_items == MergeItems(RecentSales(so, lookback_days), items)
        sorted == SortByRevenueDesc(ProductRevenue(sales_with_items))
        classified == [i \in 1..Len(sorted) |->
            [product_id |-> sorted[i].product_id,
             quantity_ordered |-> sorted[i].quantity_ordered,
             total_revenue |-> sorted[i].total_revenue,
             cumulative_pct |-> CumulativePct(sorted, i),
             abc_class |-> assign_class(CumulativePct(sorted, i), a_threshold, b_threshold)]]
    IN  \* merge with products: rows of unknown products are dropped
        SelectSeq(classified,
                  LAMBDA r : \E p \in Range(prods) : p.product_id = r.product_id)

AbcThresholds == {<<80, 95>>, <<50, 75>>}
AbcLookbacks == {365}

calculate_abc_classification ==
    /\ \E lookback_days \in AbcLookbacks, th \in AbcThresholds :
           result' = [op |-> "abc", args |-> <<lookback_days, th[1], th[2]>>, ok |-> TRUE,
                      rows |-> abc_classification(sales_orders, sales_order_items, products,
                                                  lookback_days, th[1], th[2])]
    /\ UNCHANGED <<tables, scoring_input, disk>>

(***************************************************************************)
(* InventoryAnalytics.calculate_inventory_turnover                         *)
(***************************************************************************)
\* sales_orders.merge(sales_order_items), then the rows not cancelled.
NonCancelledSales(so, items) ==
    SelectSeq(MergeItems(so, items), LAMBDA r : r.status # "Cancelled")

\* groupby(['warehouse_id', 'product_id']).agg(quantity_ordered sum), for the
\* group keys in ascending order.
QuantityByWarehouseProduct(rows, keys) ==
    [k \in 1..Len(keys) |->
        [warehouse_id |-> keys[k][1], product_id |-> keys[k][2],
         quantity_ordered |-> SumQuantity(SelectSeq(rows, LAMBDA r :
                                  r.warehouse_id = keys[k][1] /\ r.product_id = keys[k][2]))]]

\* One group merged with the products of its product_id; cogs_annual =
\* quantity_ordered * unit_cost.
CogsOfGroup(group, ps) ==
    [j \in 1..Len(ps) |->
        [warehouse_id |-> group.warehouse_id, product_id |-> group.product_id,
         unit_cost |-> ps[j].unit_cost,
         cogs_annual |-> RMul(RInt(group.quantity_ordered), ps[j].unit_cost)]]

\* cogs.merge(products[['product_id', 'unit_cost']], on='product_id')
CogsRows(grouped, prods) ==
    Flatten([k \in 1..Len(grouped) |->
        CogsOfGroup(grouped[k],
                    SelectSeq(prods, LAMBDA p : p.product_id = grouped[k].product_id))])

\* The sales not cancelled, grouped by warehouse and product.
SalesByWarehouseProduct(rows) ==
    QuantityByWarehouseProduct(rows,
        Ascending({<<rows[i].warehouse_id, rows[i].product_id>> : i \in 1..Len(rows)}))

Cogs(so, items, prods) ==
    CogsRows(SalesByWarehouseProduct(NonCancelledSales(so, items)), prods)

classify_turnover(ratio) ==
    IF RGe(ratio, RInt(12)) THEN "Fast Moving"
    ELSE IF RGe(ratio, RInt(4)) THEN "Normal"
    ELSE IF RGe(ratio, RInt(1)) THEN "Slow Moving"
    ELSE "Dead Stock"

\* The division without its guard.
TurnoverRatioUnguarded(cogs_annual, inventory_value) == RDiv(cogs_annual, inventory_value)

\* np.where(inventory_value > 0, cogs_annual / inventory_value, 0)
TurnoverRatio(cogs_annual, inventory_value) ==
    IF RGt(inventory_value, RInt(0)) THEN RDiv(cogs_annual, inventory_value) ELSE RInt(0)

\* np.where(turnover_ratio > 0, 365 / turnover_ratio, np.inf)
DaysOfSupply(turnover_ratio) ==
    IF RGt(turnover_ratio, RInt(0)) THEN RDiv(RInt(365), turnover_ratio) ELSE Inf

\* One inventory record in inv.merge(cogs, how='left'): unit_cost and
\* cogs_annual come from the cogs row and are NaN without one.
InventoryWithCogs(r, cs) ==
    IF cs = <<>>
    THEN <<[inv |-> r, unit_cost |-> NaN, cogs_annual |-> NaN]>>
    ELSE [j \in 1..Len(cs) |->
             [inv |-> r, unit_cost |-> cs[j].unit_cost, cogs_annual |-> cs[j].cogs_annual]]

\* inv.merge(cogs, on=['warehouse_id', 'product_id'], how='left')
LeftMergeCogs(inv, cogs) ==
    Flatten([i \in 1..Len(inv) |->
        InventoryWithCogs(inv[i],
            SelectSeq(cogs, LAMBDA c : /\ c.warehouse_id = inv[i].warehouse_id
                                       /\ c.product_id = inv[i].product_id))])

WithSku(row, ps) == [j \in 1..Len(ps) |-> [row |-> row, sku |-> ps[j].sku]]

\* result.merge(products[['product_id', 'sku', 'product_name']], on='product_id')
MergeProducts(left, prods) ==
    Flatten([i \in 1..Len(left) |->
        WithSku(left[i], SelectSeq(prods, LAMBDA p : p.product_id = left[i].inv.product_id))])

WithWarehouseCode(r, ws) ==
    [j \in 1..Len(ws) |->
        [row |-> r.row, sku |-> r.sku, warehouse_code |-> ws[j].warehouse_code]]

\* result.merge(warehouses[['warehouse_id', 'warehouse_code']], on='warehouse_id')
MergeWarehouses(rows, whs) ==
    Flatten([i \in 1..Len(rows) |->
        WithWarehouseCode(rows[i],
            SelectSeq(whs, LAMBDA w : w.warehouse_id = rows[i].row.inv.warehouse_id))])

\* The metrics of one row: inventory_value, cogs_annual.fillna(0),
\* turnover_ratio, days_of_supply and turnover_category.
TurnoverMetrics(r) ==
    LET inventory_value == RMul(RInt(r.row.inv.quantity_on_hand), r.row.unit_cost)
        cogs_annual == IF IsNaN(r.row.cogs_annual) THEN RInt(0) ELSE r.row.cogs_annual
        turnover_ratio == TurnoverRatio(cogs_annual, inventory_value)
    IN  [warehouse_code |-> r.warehouse_code, sku |-> r.sku,
         quantity_on_hand |-> r.row.inv.quantity_on_hand,
         inventory_value |-> inventory_value,
         cogs_annual |-> cogs_annual,
         turnover_ratio |-> turnover_ratio,
         days_of_supply |-> DaysOfSupply(turnover_ratio),
         turnover_category |-> classify_turnover(turnover_ratio)]

TurnoverTable(rows) == [i \in 1..Len(rows) |-> TurnoverMetrics(rows[i])]

\* inv = inventory, filtered when a warehouse is given.
InventoryOf(invt, warehouse_id) ==
    IF warehouse_id # 0
    THEN SelectSeq(invt, LAMBDA r : r.warehouse_id = warehouse_id)
    ELSE invt

inventory_turnover(so, items, prods, whs, invt, warehouse_id) ==
    TurnoverTable(
        MergeWarehouses(
            MergeProducts(LeftMergeCogs(InventoryOf(invt, warehouse_id),
                                        Cogs(so, items, prods)),
                          prods),
            whs))

\* warehouse_id: 0 stands for None (no filter).
TurnoverWarehouses == {0, 1}

calculate_inventory_turnover ==
    /\ \E warehouse_id \in TurnoverWarehouses :
           result' = [op |-> "turnover", args |-> <<warehouse_id>>, ok |-> TRUE,
                      rows |-> inventory_turnover(sales_orders, sales_order_items, products,
                                                  warehouses, inventory, warehouse_id)]
    /\ UNCHANGED <<tables, scoring_input, disk>>

(***************************************************************************)
(* InventoryAnalytics.calculate_eoq                                        *)
(***************************************************************************)
\* One product's demand merged with the products of its product_id.
DemandOfProduct(annual_demand, ps) ==
    [j \in 1..Len(ps) |->
        [sku |-> ps[j].sku, unit_cost |-> ps[j].unit_cost, annual_demand |-> annual_demand]]

\* groupby('product_id').agg(quantity_ordered sum) for the group keys in
\* ascending order, merged with products.
DemandByProduct(rows, keys, prods) ==
    Flatten([k \in 1..Len(keys) |->
        DemandOfProduct(SumQuantity(SelectSeq(rows, LAMBDA r : r.product_id = keys[k][1])),
                        SelectSeq(prods, LAMBDA p : p.product_id = keys[k][1]))])

\* The quantity sum per product over the given sales rows.
DemandOfSales(rows, prods) ==
    DemandByProduct(rows, Ascending({<<rows[i].product_id>> : i \in 1..Len(rows)}), prods)

\* annual_demand: over all sales not cancelled.
AnnualDemand(so, items, prods) == DemandOfSales(NonCancelledSales(so, items), prods)

\* The square root cut to its integer part instead of rounded.
RoundSqrtTruncated(x) == Isqrt(x[1] \div x[2])

\* np.sqrt(x).round(0) for a finite x >= 0.
RoundSqrt(x) ==
    LET k == Isqrt(x[1] \div x[2])
        c == Rat((2 * k + 1) * (2 * k + 1), 4)
    IN  IF RLt(x, c) THEN k
        ELSE IF RGt(x, c) THEN k + 1
        ELSE IF k % 2 = 0 THEN k ELSE k + 1

\* np.sqrt(2 * annual_demand * ordering_cost / holding_cost_per_unit), before
\* rounding: the value under the square root.
EoqSquared(annual_demand, ordering_cost, holding_cost_per_unit) ==
    RDiv(RInt(2 * annual_demand * ordering_cost), holding_cost_per_unit)

\* .round(0).astype(int)
Eoq(annual_demand, ordering_cost, holding_cost_per_unit) ==
    RoundSqrt(EoqSquared(annual_demand, ordering_cost, holding_cost_per_unit))

\* The orders of a year counted in whole orders.
OrdersPerYearWhole(annual_demand, eoq) ==
    RoundDec(RDiv(RInt(annual_demand), RInt(eoq)), 1)

\* (annual_demand / eoq).round(1)
OrdersPerYear(annual_demand, eoq) ==
    RoundDec(RDiv(RInt(annual_demand), RInt(eoq)), 10)

\* (365 / orders_per_year).round(0)
DaysBetweenOrders(orders_per_year) == RoundDec(RDiv(RInt(365), orders_per_year), 1)

\* The columns of one row of the EOQ table.
EoqRow(b, ordering_cost, holding_cost_rate) ==
    LET holding_cost_per_unit == RMul(b.unit_cost, holding_cost_rate)
        eoq == Eoq(b.annual_demand, ordering_cost, holding_cost_per_unit)
        orders_per_year == OrdersPerYear(b.annual_demand, eoq)
    IN  [sku |-> b.sku, unit_cost |-> b.unit_cost,
         annual_demand |-> b.annual_demand,
         eoq |-> eoq,
         orders_per_year |-> orders_per_year,
         days_between_orders |-> DaysBetweenOrders(orders_per_year),
         annual_inventory_cost |->
             Rat(RoundSqrt(RMul(RInt(2 * b.annual_demand * ordering_cost * 10000),
                                holding_cost_per_unit)), 100)]

EoqTable(base, ordering_cost, holding_cost_rate) ==
    [i \in 1..Len(base) |-> EoqRow(base[i], ordering_cost, holding_cost_rate)]

eoq_rows(so, items, prods, ordering_cost, holding_cost_rate) ==
    EoqTable(AnnualDemand(so, items, prods), ordering_cost, holding_cost_rate)

\* astype(int) raises when a value under conversion is NaN or infinite: that is
\* when some row has a holding cost of 0.
EoqRaisesOn(base, holding_cost_rate) ==
    \E i \in 1..Len(base) :
        ~IsFinite(EoqSquared(base[i].annual_demand, 1,
                             RMul(base[i].unit_cost, holding_cost_rate)))

EoqRaises(so, items, prods, holding_cost_rate) ==
    EoqRaisesOn(AnnualDemand(so, items, prods), holding_cost_rate)

OrderingCosts == {50}
HoldingCostRates == {<<1, 4>>, <<0, 1>>}

calculate_eoq ==
    /\ \E ordering_cost \in OrderingCosts, holding_cost_rate \in HoldingCostRates :
           result' = IF EoqRaises(sales_orders, sales_order_items, products, holding_cost_rate)
                     THEN [op |-> "eoq", args |-> <<ordering_cost, holding_cost_rate>>,
                           ok |-> FALSE, rows |-> <<>>]
                     ELSE [op |-> "eoq", args |-> <<ordering_cost, holding_cost_rate>>,
                           ok |-> TRUE,
                           rows |-> eoq_rows(sales_orders, sales_order_items, products,
                                             ordering_cost, holding_cost_rate)]
    /\ UNCHANGED <<tables, scoring_input, disk>>

\* The demand of a year, the cost of an order and the holding cost of a unit
\* that the order quantity columns are computed for.
DemandGrid == {0, 1, 2, 10, 100, 1200, 5000}
OrderingCostGrid == {1, 10, 50}
HoldingCostGrid == {<<0, 1>>, <<1, 4>>, <<5, 2>>, <<5, 1>>, <<16, 1>>, <<45, 1>>}

\* One row of demand and costs, as it stands before the EOQ columns.
InitEoq ==
    /\ products = FixedProducts
    /\ warehouses = FixedWarehouses
    /\ inventory = FixedInventory
    /\ suppliers = FixedSuppliers
    /\ sales_orders = FixedSalesOrders
    /\ sales_order_items = FixedSalesOrderItems
    /\ purchase_orders = FixedPurchaseOrders
    /\ purchase_order_items = FixedPurchaseOrderItems
    /\ \E d \in DemandGrid, s \in OrderingCostGrid, h \in HoldingCostGrid :
           scoring_input = <<[annual_demand |-> d, ordering_cost |-> s,
                              holding_cost_per_unit |-> h]>>
    /\ stockout_events = FixedStockoutEvents
    /\ disk = FixedDisk
    /\ result = NoResult

\* The columns eoq, orders_per_year and days_between_orders of one row.
EoqColumns(annual_demand, ordering_cost, holding_cost_per_unit, eoq) ==
    [annual_demand |-> annual_demand, ordering_cost |-> ordering_cost,
     holding_cost_per_unit |-> holding_cost_per_unit,
     eoq |-> eoq,
     orders_per_year |-> OrdersPerYear(annual_demand, eoq),
     days_between_orders |-> DaysBetweenOrders(OrdersPerYear(annual_demand, eoq))]

\* result['eoq'], result['orders_per_year'] and result['days_between_orders']
\* computed for the rows of scoring_input; astype(int) raises on a row whose
\* holding cost is 0.
apply_eoq ==
    /\ result' =
           IF \E i \in 1..Len(scoring_input) :
                  ~IsFinite(EoqSquared(scoring_input[i].annual_demand,
                                       scoring_input[i].ordering_cost,
                                       scoring_input[i].holding_cost_per_unit))
           THEN [op |-> "eoq_columns", args |-> <<>>, ok |-> FALSE, rows |-> <<>>]
           ELSE [op |-> "eoq_columns", args |-> <<>>, ok |-> TRUE,
                 rows |-> [i \in 1..Len(scoring_input) |->
                     EoqColumns(scoring_input[i].annual_demand,
                                scoring_input[i].ordering_cost,
                                scoring_input[i].holding_cost_per_unit,
                                Eoq(scoring_input[i].annual_demand,
                                    scoring_input[i].ordering_cost,
                                    scoring_input[i].holding_cost_per_unit))]]
    /\ UNCHANGED <<tables, scoring_input, disk>>

(***************************************************************************)
(* InventoryAnalytics.calculate_reorder_points                             *)
(***************************************************************************)
\* stats.norm.ppf(service_level) for the service levels the model calls with
\* (in units of 0.00001), to three decimals; 1.0 gives +inf.
norm_ppf(service_level) ==
    CASE service_level = 15866 -> <<-1, 1>>
      [] service_level = 50000 -> <<0, 1>>
      [] service_level = 95000 -> <<329, 200>>
      [] service_level = 100000 -> Inf

\* groupby(['warehouse_id', 'product_id', 'order_date']) quantity sum, for the
\* group keys in ascending order.
DailyDemandRows(rows, dayKeys) ==
    [k \in 1..Len(dayKeys) |->
        [warehouse_id |-> dayKeys[k][1], product_id |-> dayKeys[k][2],
         quantity_ordered |-> SumQuantity(SelectSeq(rows, LAMBDA r :
                                  /\ r.warehouse_id = dayKeys[k][1]
                                  /\ r.product_id = dayKeys[k][2]
                                  /\ r.order_date = dayKeys[k][3]))]]

DailyDemand(rows) ==
    DailyDemandRows(rows,
        Ascending({<<rows[i].warehouse_id, rows[i].product_id, rows[i].order_date>>
                   : i \in 1..Len(rows)}))

\* The mean, the squared sample standard deviation (NaN for a single day) and
\* the count of the daily quantities of one (warehouse, product).
DemandStatOf(key, quantities) ==
    [warehouse_id |-> key[1], product_id |-> key[2],
     avg_daily_demand |-> MeanInts(quantities),
     var_daily_demand |-> VarInts(quantities),
     days_with_demand |-> Len(quantities)]

Quantities(g) == [i \in 1..Len(g) |-> g[i].quantity_ordered]

\* daily_demand.groupby(['warehouse_id', 'product_id']).agg(mean, std, count)
DemandStatRows(daily_demand, keys) ==
    [k \in 1..Len(keys) |->
        DemandStatOf(keys[k],
            Quantities(SelectSeq(daily_demand, LAMBDA r : /\ r.warehouse_id = keys[k][1]
                                                          /\ r.product_id = keys[k][2])))]

DemandStatsOf(daily_demand) ==
    DemandStatRows(daily_demand,
        Ascending({<<daily_demand[i].warehouse_id, daily_demand[i].product_id>>
                   : i \in 1..Len(daily_demand)}))

DemandStats(so, items, lookback_days) ==
    DemandStatsOf(DailyDemand(MergeItems(RecentSales(so, lookback_days), items)))

\* A missing deviation filled with half of the mean.
FilledDemandVarianceAtHalf(stat) ==
    IF IsNaN(stat.var_daily_demand)
    THEN RMul(<<1, 4>>, RMul(stat.avg_daily_demand, stat.avg_daily_demand))
    ELSE stat.var_daily_demand

\* std_daily_demand.fillna(avg_daily_demand * 0.3), squared.
FilledDemandVariance(stat) ==
    IF IsNaN(stat.var_daily_demand)
    THEN RMul(<<9, 100>>, RMul(stat.avg_daily_demand, stat.avg_daily_demand))
    ELSE stat.var_daily_demand

\* The Delivered purchase orders of a supplier whose lead time (actual delivery
\* date - order date) is known; the mean of a group skips the unknown ones.
DeliveredLeadTimes(pos, supplier_id) ==
    LET d == SelectSeq(pos, LAMBDA po : /\ po.status = "Delivered"
                                        /\ po.supplier_id = supplier_id
                                        /\ po.actual_delivery_date # NaT
                                        /\ po.order_date # NaT)
    IN  [i \in 1..Len(d) |-> d[i].actual_delivery_date - d[i].order_date]

\* lead_time_stats: per supplier with a Delivered purchase order, the mean of
\* the actual lead time.  The reorder point does not read it.
LeadTimeStats(pos) ==
    LET keys == Ascending({<<pos[i].supplier_id>> :
                           i \in {j \in 1..Len(pos) : pos[j].status = "Delivered"}})
    IN  [k \in 1..Len(keys) |->
            LET lts == DeliveredLeadTimes(pos, keys[k][1])
            IN  [supplier_id |-> keys[k][1],
                 avg_lead_time |-> Rat(SumInts(lts), Len(lts))]]

\* result['avg_lead_time'] and result['std_lead_time']
RopLeadTime(product, pos) == RInt(product.lead_time_days)
RopLeadTimeStd(product, pos) == RMul(RInt(product.lead_time_days), <<1, 5>>)

\* SS = z * sqrt(LT * sigma_d^2 + d^2 * sigma_LT^2): the value under the root.
SafetyStockSquared(avg_daily_demand, var_daily_demand, avg_lead_time, std_lead_time) ==
    RAdd(RMul(avg_lead_time, var_daily_demand),
         RMul(RMul(avg_daily_demand, avg_daily_demand), RMul(std_lead_time, std_lead_time)))

\* safety_stock = z_score * sqrt(x), .round(0).astype(int)
SafetyStock(z_score, x) == RoundSqrtForm(RInt(0), z_score, x)

\* The safety stock subtracted instead of added.
CalculatedRopMinus(avg_daily_demand, avg_lead_time, z_score, x) ==
    RoundSqrtForm(RMul(avg_daily_demand, avg_lead_time), RNeg(z_score), x)

\* calculated_rop = avg_daily_demand * avg_lead_time + safety_stock (the value
\* before its rounding), .round(0).astype(int)
CalculatedRop(avg_daily_demand, avg_lead_time, z_score, x) ==
    RoundSqrtForm(RMul(avg_daily_demand, avg_lead_time), z_score, x)

\* The comparison of the adjustment with a fifth of the current reorder point.
RecommendWithoutBand(rop_adjustment, current_rop) ==
    IF rop_adjustment > 0 THEN "Increase ROP"
    ELSE IF rop_adjustment < 0 THEN "Decrease ROP"
    ELSE "Optimal"

recommend(rop_adjustment, current_rop) ==
    IF RGt(RInt(rop_adjustment), RMul(RInt(current_rop), <<1, 5>>)) THEN "Increase ROP"
    ELSE IF RLt(RInt(rop_adjustment), RMul(RInt(-current_rop), <<1, 5>>)) THEN "Decrease ROP"
    ELSE "Optimal"

\* One row of demand_stats merged with its inventory records, products and
\* warehouses.
MergeStat(stat, is, ps, ws) ==
    Flatten([i \in 1..Len(is) |-> Flatten([j \in 1..Len(ps) |->
        [l \in 1..Len(ws) |->
            [stat |-> stat, inv |-> is[i], product |-> ps[j],
             warehouse_code |-> ws[l].warehouse_code]]])])

\* demand_stats merged with inventory, products and warehouses (inner merges).
MergeStats(stats, prods, whs, invt) ==
    Flatten([k \in 1..Len(stats) |->
        MergeStat(stats[k],
                  SelectSeq(invt, LAMBDA r : /\ r.warehouse_id = stats[k].warehouse_id
                                             /\ r.product_id = stats[k].product_id),
                  SelectSeq(prods, LAMBDA p : p.product_id = stats[k].product_id),
                  SelectSeq(whs, LAMBDA w : w.warehouse_id = stats[k].warehouse_id))])

RopBase(so, items, prods, whs, invt, lookback_days) ==
    MergeStats(DemandStats(so, items, lookback_days), prods, whs, invt)

\* The columns of one row, given the value under the root of its safety stock.
RopColumns(b, avg_lead_time, z_score, x, calculated_rop) ==
    [warehouse_code |-> b.warehouse_code, sku |-> b.product.sku,
     quantity_on_hand |-> b.inv.quantity_on_hand,
     avg_daily_demand |-> b.stat.avg_daily_demand,
     avg_lead_time |-> avg_lead_time,
     safety_stock |-> SafetyStock(z_score, x),
     current_rop |-> b.inv.reorder_point,
     calculated_rop |-> calculated_rop,
     recommendation |-> recommend(calculated_rop - b.inv.reorder_point,
                                  b.inv.reorder_point)]

RopRowWith(b, avg_lead_time, z_score, x) ==
    RopColumns(b, avg_lead_time, z_score, x,
               CalculatedRop(b.stat.avg_daily_demand, avg_lead_time, z_score, x))

RopRow(b, pos, z_score) ==
    RopRowWith(b, RopLeadTime(b.product, pos), z_score,
               SafetyStockSquared(b.stat.avg_daily_demand, FilledDemandVariance(b.stat),
                                  RopLeadTime(b.product, pos),
                                  RopLeadTimeStd(b.product, pos)))

RopTable(base, pos, z_score) == [i \in 1..Len(base) |-> RopRow(base[i], pos, z_score)]

reorder_points(so, items, prods, whs, invt, pos, z_score, lookback_days) ==
    RopTable(RopBase(so, items, prods, whs, invt, lookback_days), pos, z_score)

ServiceLevels == {15866, 50000, 95000, 100000}
RopLookbacks == {90}

\* With a z-score that is not finite, safety stock is not finite on every row
\* and astype(int) raises as soon as there is a row.
ReorderPointsResult(service_level, lookback_days, z_score) ==
    IF /\ ~IsFinite(z_score)
       /\ RopBase(sales_orders, sales_order_items, products, warehouses,
                  inventory, lookback_days) # <<>>
    THEN [op |-> "rop", args |-> <<service_level, lookback_days>>,
          ok |-> FALSE, rows |-> <<>>]
    ELSE [op |-> "rop", args |-> <<service_level, lookback_days>>,
          ok |-> TRUE,
          rows |-> reorder_points(sales_orders, sales_order_items,
                       products, warehouses, inventory, purchase_orders,
                       z_score, lookback_days)]

calculate_reorder_points ==
    /\ \E service_level \in ServiceLevels, lookback_days \in RopLookbacks :
           result' = ReorderPointsResult(service_level, lookback_days,
                                         norm_ppf(service_level))
    /\ UNCHANGED <<tables, scoring_input, disk>>

\* The call with the defaults: service_level = 0.95, lookback_days = 90.
calculate_reorder_points_default ==
    /\ \E service_level \in {95000}, lookback_days \in RopLookbacks :
           result' = ReorderPointsResult(service_level, lookback_days,
                                         norm_ppf(service_level))
    /\ UNCHANGED <<tables, scoring_input, disk>>

(***************************************************************************)
(* SupplierAnalytics.calculate_supplier_scores                             *)
(***************************************************************************)
\* purchase_orders['order_date'].max()
MaxPoDate(pos) ==
    IF pos = <<>> THEN NaT ELSE Max({pos[i].order_date : i \in 1..Len(pos)})

\* The purchase orders the scores are computed from.
RecentPos(pos, lookback_days) ==
    IF pos = <<>> THEN <<>>
    ELSE LET cutoff_date == MaxPoDate(pos) - lookback_days
         IN  SelectSeq(pos, LAMBDA po : po.order_date >= cutoff_date
                                        /\ po.status = "Delivered")

\* (actual_delivery_date <= expected_delivery_date).astype(int): a comparison
\* with a missing date is false.
is_on_time(po) ==
    IF po.actual_delivery_date # NaT /\ po.expected_delivery_date # NaT
       /\ po.actual_delivery_date <= po.expected_delivery_date
    THEN 1 ELSE 0

\* actual_delivery_date - expected_delivery_date in days, of the orders where
\* both are known (mean and std skip the others).
DeliveryVariances(g) ==
    [i \in 1..Len(g) |-> g[i].actual_delivery_date - g[i].expected_delivery_date]

KnownDeliveries(g) ==
    SelectSeq(g, LAMBDA po : po.actual_delivery_date # NaT /\ po.expected_delivery_date # NaT)

\* The metrics of the orders of one supplier.
DeliveryMetricsOf(supplier_id, g, on_time_orders, delivery_variance) ==
    [supplier_id |-> supplier_id,
     total_orders |-> Len(g),
     on_time_orders |-> on_time_orders,
     avg_variance |-> MeanInts(delivery_variance),
     var_variance |-> VarInts(delivery_variance),
     on_time_rate |-> RMul(Rat(on_time_orders, Len(g)), RInt(100))]

DeliveryMetricsOfGroup(supplier_id, g) ==
    DeliveryMetricsOf(supplier_id, g, SumInts([i \in 1..Len(g) |-> is_on_time(g[i])]),
                      DeliveryVariances(KnownDeliveries(g)))

\* groupby('supplier_id'): po_id count, is_on_time sum, delivery_variance mean
\* and std, for the group keys in ascending order.
DeliveryMetricRows(recent_pos, keys) ==
    [k \in 1..Len(keys) |->
        DeliveryMetricsOfGroup(keys[k][1],
            SelectSeq(recent_pos, LAMBDA po : po.supplier_id = keys[k][1]))]

DeliveryMetrics(recent_pos) ==
    DeliveryMetricRows(recent_pos,
        Ascending({<<recent_pos[i].supplier_id>> : i \in 1..Len(recent_pos)}))

\* One item of purchase_order_items.merge(recent_pos[['po_id', 'supplier_id']])
ItemOfOrders(item, ps) ==
    [j \in 1..Len(ps) |->
        [supplier_id |-> ps[j].supplier_id,
         quantity_ordered |-> item.quantity_ordered,
         quantity_received |-> item.quantity_received]]

MergeOrders(po_items, recent_pos) ==
    Flatten([i \in 1..Len(po_items) |->
        ItemOfOrders(po_items[i],
                     SelectSeq(recent_pos, LAMBDA po : po.po_id = po_items[i].po_id))])

\* The fill rate set to 0 when nothing was ordered.
FillMetricsOfGuarded(supplier_id, g) ==
    [supplier_id |-> supplier_id,
     fill_rate |-> IF SumQuantity(g) = 0 THEN RInt(0)
                   ELSE RMul(RDiv(RInt(SumInts([i \in 1..Len(g) |-> g[i].quantity_received])),
                                  RInt(SumQuantity(g))),
                             RInt(100))]

\* fill_rate = quantity_received / quantity_ordered * 100 of one supplier.
FillMetricsOf(supplier_id, g) ==
    [supplier_id |-> supplier_id,
     fill_rate |-> RMul(RDiv(RInt(SumInts([i \in 1..Len(g) |-> g[i].quantity_received])),
                             RInt(SumQuantity(g))),
                        RInt(100))]

FillMetricRows(merged, keys) ==
    [k \in 1..Len(keys) |->
        FillMetricsOf(keys[k][1], SelectSeq(merged, LAMBDA r : r.supplier_id = keys[k][1]))]

FillMetricsOfItems(merged) ==
    FillMetricRows(merged, Ascending({<<merged[i].supplier_id>> : i \in 1..Len(merged)}))

\* purchase_order_items.merge(recent_pos), groupby('supplier_id') sums, and
\* the fill rate.
FillMetrics(recent_pos, po_items) == FillMetricsOfItems(MergeOrders(po_items, recent_pos))

\* consistency_score of the standard deviation of the delivery variance, which
\* the model holds squared.
consistency_score(var_variance) ==
    IF IsNaN(var_variance) \/ RLe(var_variance, RInt(1)) THEN 20
    ELSE IF RLe(var_variance, RInt(9)) THEN 15
    ELSE IF RLe(var_variance, RInt(49)) THEN 10
    ELSE 5

\* The consistency weighted a second time.
ReliabilityScoreReweighted(on_time_rate, fill_rate, consistency) ==
    RAdd(RAdd(RMul(on_time_rate, <<2, 5>>), RMul(fill_rate, <<2, 5>>)),
         RMul(RInt(consistency), <<1, 5>>))

reliability_score(on_time_rate, fill_rate, consistency) ==
    RAdd(RAdd(RMul(on_time_rate, <<2, 5>>), RMul(fill_rate, <<2, 5>>)), RInt(consistency))

\* The Silver band tested before the Gold band.
AssignTierSilverFirst(on_time_rate, fill_rate) ==
    IF RGe(on_time_rate, RInt(95)) /\ RGe(fill_rate, RInt(98)) THEN "Platinum"
    ELSE IF RGe(on_time_rate, RInt(80)) /\ RGe(fill_rate, RInt(90)) THEN "Silver"
    ELSE IF RGe(on_time_rate, RInt(90)) /\ RGe(fill_rate, RInt(95)) THEN "Gold"
    ELSE "Bronze"

assign_tier(on_time_rate, fill_rate) ==
    IF RGe(on_time_rate, RInt(95)) /\ RGe(fill_rate, RInt(98)) THEN "Platinum"
    ELSE IF RGe(on_time_rate, RInt(90)) /\ RGe(fill_rate, RInt(95)) THEN "Gold"
    ELSE IF RGe(on_time_rate, RInt(80)) /\ RGe(fill_rate, RInt(90)) THEN "Silver"
    ELSE "Bronze"

\* The score columns of one row, before the rounding of the report.
ScoreRow(on_time_rate, fill_rate, var_variance) ==
    [on_time_rate |-> on_time_rate, fill_rate |-> fill_rate,
     consistency_score |-> consistency_score(var_variance),
     reliability_score |-> reliability_score(on_time_rate, fill_rate,
                                             consistency_score(var_variance)),
     tier |-> assign_tier(on_time_rate, fill_rate)]

\* One row of delivery_metrics merged with fill_metrics and suppliers.
MergeMetric(d, fs, ss) ==
    Flatten([j \in 1..Len(fs) |-> [l \in 1..Len(ss) |->
        [d |-> d, fill_rate |-> fs[j].fill_rate, supplier |-> ss[l]]]])

\* delivery_metrics.merge(fill_metrics).merge(suppliers), on supplier_id.
MergeMetrics(delivery_metrics, fill_metrics, sups) ==
    Flatten([i \in 1..Len(delivery_metrics) |->
        MergeMetric(delivery_metrics[i],
            SelectSeq(fill_metrics, LAMBDA f : f.supplier_id = delivery_metrics[i].supplier_id),
            SelectSeq(sups, LAMBDA su : su.supplier_id = delivery_metrics[i].supplier_id))])

\* The two rates reported in each other's column.
ReportedRatesSwapped(r) ==
    [on_time_rate |-> RoundDec(r.fill_rate, 100),
     fill_rate |-> RoundDec(r.on_time_rate, 100),
     reliability_score |-> RoundDec(r.reliability_score, 10),
     tier |-> r.tier]

\* on_time_rate.round(2), fill_rate.round(2) and reliability_score.round(1) of
\* a scored row; the tier is the one assigned before.
ReportedRates(r) ==
    [on_time_rate |-> RoundDec(r.on_time_rate, 100),
     fill_rate |-> RoundDec(r.fill_rate, 100),
     reliability_score |-> RoundDec(r.reliability_score, 10),
     tier |-> r.tier]

\* The reported columns: the scored row with its values rounded.
ReportedColumns(m, rep) ==
    [supplier_code |-> m.supplier.supplier_code,
     total_orders |-> m.d.total_orders,
     on_time_rate |-> rep.on_time_rate,
     fill_rate |-> rep.fill_rate,
     avg_variance |-> RoundDec(m.d.avg_variance, 10),
     quality_rating |-> m.supplier.quality_rating,
     reliability_score |-> rep.reliability_score,
     tier |-> rep.tier]

ReportedScore(m, r) == ReportedColumns(m, ReportedRates(r))

ScoreTable(scores) ==
    [i \in 1..Len(scores) |->
        ReportedScore(scores[i], ScoreRow(scores[i].d.on_time_rate, scores[i].fill_rate,
                                          scores[i].d.var_variance))]

\* The scores computed from the filtered purchase orders.
ScoresOf(sups, recent_pos, po_items) ==
    ScoreTable(MergeMetrics(DeliveryMetrics(recent_pos), FillMetrics(recent_pos, po_items),
                            sups))

supplier_scores(sups, pos, po_items, lookback_days) ==
    ScoresOf(sups, RecentPos(pos, lookback_days), po_items)

ScoreLookbacks == {365}

calculate_supplier_scores ==
    /\ \E lookback_days \in ScoreLookbacks :
           result' = [op |-> "scores", args |-> <<lookback_days>>, ok |-> TRUE,
                      rows |-> supplier_scores(suppliers, purchase_orders,
                                               purchase_order_items, lookback_days)]
    /\ UNCHANGED <<tables, scoring_input, disk>>

(***************************************************************************)
(* SupplierAnalytics.analyze_lead_time_variability                         *)
(***************************************************************************)
\* cv_pct = std_lead_time / avg_lead_time * 100, held as its sign and its
\* square when it is finite.
CvPct(avg_lead_time, var_lead_time) ==
    IF IsNaN(avg_lead_time) \/ IsNaN(var_lead_time)
    THEN [kind |-> "nan", sign |-> 0, square |-> NaN]
    ELSE IF avg_lead_time[1] = 0
    THEN (IF var_lead_time[1] = 0 THEN [kind |-> "nan", sign |-> 0, square |-> NaN]
          ELSE [kind |-> "inf", sign |-> 1, square |-> Inf])
    ELSE [kind |-> "finite", sign |-> Sign(avg_lead_time[1]),
          square |-> RDiv(RMul(var_lead_time, RInt(10000)),
                          RMul(avg_lead_time, avg_lead_time))]

\* cv <= limit, for a finite cv.
CvLe(cv, limit) == cv.sign < 0 \/ RLe(cv.square, RInt(limit * limit))

classify_reliability(cv) ==
    IF cv.kind = "nan" THEN "Highly Reliable"
    ELSE IF cv.kind = "inf" THEN "Unreliable"
    ELSE IF CvLe(cv, 10) THEN "Highly Reliable"
    ELSE IF CvLe(cv, 25) THEN "Reliable"
    ELSE IF CvLe(cv, 40) THEN "Variable"
    ELSE "Unreliable"

\* The lead time statistics of the Delivered orders of one supplier.
LeadTimeStatsOf(supplier_id, delivery_count, lts) ==
    [supplier_id |-> supplier_id,
     delivery_count |-> delivery_count,
     avg_lead_time |-> MeanInts(lts),
     var_lead_time |-> VarInts(lts),
     cv_pct |-> CvPct(MeanInts(lts), VarInts(lts)),
     reliability_category |-> classify_reliability(CvPct(MeanInts(lts), VarInts(lts)))]

\* delivered.groupby('supplier_id'): po_id count, actual_lead_time mean and std.
LeadTimeStatRows(delivered, keys) ==
    [k \in 1..Len(keys) |->
        LeadTimeStatsOf(keys[k][1],
            Len(SelectSeq(delivered, LAMBDA po : po.supplier_id = keys[k][1])),
            DeliveredLeadTimes(delivered, keys[k][1]))]

LeadTimeStatsOfDelivered(delivered) ==
    LeadTimeStatRows(delivered,
        Ascending({<<delivered[i].supplier_id>> : i \in 1..Len(delivered)}))

LeadTimeReport(stat, ss) ==
    [l \in 1..Len(ss) |->
        [supplier_code |-> ss[l].supplier_code,
         delivery_count |-> stat.delivery_count,
         avg_lead_time |-> RoundDec(stat.avg_lead_time, 100),
         var_lead_time |-> stat.var_lead_time,
         cv_pct |-> stat.cv_pct,
         reliability_category |-> stat.reliability_category]]

\* lead_time_stats.merge(suppliers, on='supplier_id') and the rounding.
MergeSuppliers(lead_time_stats, sups) ==
    Flatten([k \in 1..Len(lead_time_stats) |->
        LeadTimeReport(lead_time_stats[k],
            SelectSeq(sups, LAMBDA su : su.supplier_id = lead_time_stats[k].supplier_id))])

lead_time_variability(sups, pos) ==
    MergeSuppliers(
        LeadTimeStatsOfDelivered(SelectSeq(pos, LAMBDA po : po.status = "Delivered")), sups)

analyze_lead_time_variability ==
    /\ result' = [op |-> "lead_time", args |-> <<>>, ok |-> TRUE,
                  rows |-> lead_time_variability(suppliers, purchase_orders)]
    /\ UNCHANGED <<tables, scoring_input, disk>>

(***************************************************************************)
(* The row scoring of calculate_supplier_scores applied to given rates.    *)
(***************************************************************************)
\* Rates in percent and squared standard deviations the scoring is applied to.
\* 968 orders of 1019 on time are 94.9951%; 97,996 units received of 100,000
\* are 97.996%.
OnTimeGrid == {RInt(79), RInt(80), RInt(89), RInt(90), RInt(94), <<96800, 1019>>, RInt(95),
               RInt(96), RInt(100)}
FillGrid == {RInt(89), RInt(90), RInt(94), RInt(95), <<1959, 20>>, <<24499, 250>>, RInt(98),
             RInt(99), RInt(100)}
VarianceGrid == {NaN, RInt(0), RInt(1), RInt(2), RInt(9), RInt(10), RInt(49), RInt(50)}

\* Two rows of delivery and fill metrics, as they stand before the scoring.
InitScore ==
    /\ products = FixedProducts
    /\ warehouses = FixedWarehouses
    /\ inventory = FixedInventory
    /\ suppliers = FixedSuppliers
    /\ sales_orders = FixedSalesOrders
    /\ sales_order_items = FixedSalesOrderItems
    /\ purchase_orders = FixedPurchaseOrders
    /\ purchase_order_items = FixedPurchaseOrderItems
    /\ \E on1 \in OnTimeGrid, fill1 \in FillGrid, on2 \in OnTimeGrid, fill2 \in FillGrid,
          v \in VarianceGrid :
           scoring_input = <<[on_time_rate |-> on1, fill_rate |-> fill1, var_variance |-> v],
                             [on_time_rate |-> on2, fill_rate |-> fill2, var_variance |-> v]>>
    /\ stockout_events = FixedStockoutEvents
    /\ disk = FixedDisk
    /\ result = NoResult

\* scores['consistency_score'], scores['reliability_score'] and scores['tier']
\* computed for the rows of scoring_input.
apply_scoring ==
    /\ result' = [op |-> "score_rows", args |-> <<>>, ok |-> TRUE,
                  rows |-> [i \in 1..Len(scoring_input) |->
                               ScoreRow(scoring_input[i].on_time_rate,
                                        scoring_input[i].fill_rate,
                                        scoring_input[i].var_variance)]]
    /\ UNCHANGED <<tables, scoring_input, disk>>

\* The scored rows of scoring_input with their values rounded, as the table
\* reports them.
report_scoring ==
    /\ result' = [op |-> "reported_rows", args |-> <<>>, ok |-> TRUE,
                  rows |-> [i \in 1..Len(scoring_input) |->
                               ReportedRates(ScoreRow(scoring_input[i].on_time_rate,
                                                      scoring_input[i].fill_rate,
                                                      scoring_input[i].var_variance))]]
    /\ UNCHANGED <<tables, scoring_input, disk>>

(***************************************************************************)
(* Carrying costs by warehouse and category.                               *)
(***************************************************************************)
\* The category_name a left merge leaves on a row without a category (NaN).
NoName == -1

\* One inventory record merged with the products of its product_id.
CarryingProductsOf(r, ps) ==
    [j \in 1..Len(ps) |->
        [warehouse_id |-> r.warehouse_id, product_id |-> r.product_id,
         quantity_on_hand |-> r.quantity_on_hand, unit_cost |-> ps[j].unit_cost,
         category_id |-> ps[j].category_id]]

\* inventory.merge(products[['product_id', 'sku', 'unit_cost', 'category_id']])
CarryingProducts(inv, prods) ==
    Flatten([i \in 1..Len(inv) |->
        CarryingProductsOf(inv[i], SelectSeq(prods, LAMBDA p : p.product_id = inv[i].product_id))])

CarryingWarehousesOf(r, ws) ==
    [j \in 1..Len(ws) |->
        [row |-> r, warehouse_code |-> ws[j].warehouse_code,
         warehouse_name |-> ws[j].warehouse_name]]

\* inv.merge(warehouses[['warehouse_id', 'warehouse_code', 'warehouse_name']])
CarryingWarehouses(rows, whs) ==
    Flatten([i \in 1..Len(rows) |->
        CarryingWarehousesOf(rows[i],
                             SelectSeq(whs, LAMBDA w : w.warehouse_id = rows[i].warehouse_id))])

\* One row left-merged with the categories of its category_id; inventory_value
\* = quantity_on_hand * unit_cost.
CarryingCategoriesOf(r, cs) ==
    LET value == RMul(RInt(r.row.quantity_on_hand), r.row.unit_cost)
    IN  IF cs = <<>>
        THEN <<[row |-> r.row, warehouse_code |-> r.warehouse_code,
                warehouse_name |-> r.warehouse_name, category_name |-> NoName,
                inventory_value |-> value]>>
        ELSE [j \in 1..Len(cs) |->
                 [row |-> r.row, warehouse_code |-> r.warehouse_code,
                  warehouse_name |-> r.warehouse_name, category_name |-> cs[j].category_name,
                  inventory_value |-> value]]

\* inv.merge(categories[['category_id', 'category_name']], how='left')
CarryingCategories(rows, cats) ==
    Flatten([i \in 1..Len(rows) |->
        CarryingCategoriesOf(rows[i],
                             SelectSeq(cats, LAMBDA c : c.category_id = rows[i].row.category_id))])

\* The keys of groupby(['warehouse_code', 'warehouse_name', 'category_name']):
\* a row without a category_name is in no group.
CarryingKeys(rows) ==
    Ascending({<<rows[i].warehouse_code, rows[i].warehouse_name, rows[i].category_name>> :
                  i \in {j \in 1..Len(rows) : rows[j].category_name # NoName}})

\* agg(product_id count, quantity_on_hand sum, inventory_value sum) of one group.
CarryingGroup(key, g) ==
    [warehouse_code |-> key[1], warehouse_name |-> key[2], category_name |-> key[3],
     product_count |-> Len(g),
     total_units |-> SumInts([i \in 1..Len(g) |-> g[i].row.quantity_on_hand]),
     inventory_value |-> SumRats([i \in 1..Len(g) |-> g[i].inventory_value])]

CarryingSummary(rows, keys) ==
    [k \in 1..Len(keys) |->
        CarryingGroup(keys[k], SelectSeq(rows, LAMBDA r :
            <<r.warehouse_code, r.warehouse_name, r.category_name>> = keys[k]))]

\* The cost columns of one group, each computed from the unrounded
\* inventory_value and then rounded to cents on its own.
CarryingCostRowStorageAtSix(g) ==
    LET total == RMul(g.inventory_value, <<1, 5>>)
    IN  [warehouse_code |-> g.warehouse_code, warehouse_name |-> g.warehouse_name,
         category_name |-> g.category_name, product_count |-> g.product_count,
         total_units |-> g.total_units,
         inventory_value |-> RoundDec(g.inventory_value, 100),
         capital_cost |-> RoundDec(RMul(g.inventory_value, <<2, 25>>), 100),
         storage_cost |-> RoundDec(RMul(g.inventory_value, <<3, 50>>), 100),
         insurance_cost |-> RoundDec(RMul(g.inventory_value, <<3, 100>>), 100),
         obsolescence_cost |-> RoundDec(RMul(g.inventory_value, <<1, 50>>), 100),
         handling_cost |-> RoundDec(RMul(g.inventory_value, <<1, 50>>), 100),
         total_carrying_cost |-> RoundDec(total, 100),
         monthly_carrying_cost |-> RoundDec(RDiv(total, RInt(12)), 100)]

CarryingCostRow(g) ==
    LET total == RMul(g.inventory_value, <<1, 5>>)
    IN  [warehouse_code |-> g.warehouse_code, warehouse_name |-> g.warehouse_name,
         category_name |-> g.category_name, product_count |-> g.product_count,
         total_units |-> g.total_units,
         inventory_value |-> RoundDec(g.inventory_value, 100),
         capital_cost |-> RoundDec(RMul(g.inventory_value, <<2, 25>>), 100),
         storage_cost |-> RoundDec(RMul(g.inventory_value, <<1, 20>>), 100),
         insurance_cost |-> RoundDec(RMul(g.inventory_value, <<3, 100>>), 100),
         obsolescence_cost |-> RoundDec(RMul(g.inventory_value, <<1, 50>>), 100),
         handling_cost |-> RoundDec(RMul(g.inventory_value, <<1, 50>>), 100),
         total_carrying_cost |-> RoundDec(total, 100),
         monthly_carrying_cost |-> RoundDec(RDiv(total, RInt(12)), 100)]

CarryingCostTable(summary) ==
    [i \in 1..Len(summary) |-> CarryingCostRow(summary[i])]

CarryingGrouped(rows) == CarryingSummary(rows, CarryingKeys(rows))

carrying_costs(inv, prods, whs, cats) ==
    CarryingCostTable(CarryingGrouped(
        CarryingCategories(CarryingWarehouses(CarryingProducts(inv, prods), whs), cats)))

\* The categories file is read from the data directory when the operation is
\* called, after the two merges of the loaded tables; the read raises when
\* the file is not there.
calculate_carrying_costs ==
    /\ result' = IF "product_categories" \in disk.missing
                 THEN [op |-> "carrying_costs", args |-> <<>>, ok |-> FALSE, rows |-> <<>>]
                 ELSE [op |-> "carrying_costs", args |-> <<>>, ok |-> TRUE,
                       rows |-> carrying_costs(inventory, products, warehouses,
                                               disk.product_categories)]
    /\ UNCHANGED <<tables, scoring_input, disk>>

\* unit_cost is written with two decimals.
CostGrid == {<<1, 4>>, <<5, 100>>, <<999, 100>>, <<1237, 100>>, <<180, 1>>}

\* An inventory of three products whose unit costs range over CostGrid.
InitCost ==
    /\ \E c1 \in CostGrid, c2 \in CostGrid, c3 \in CostGrid :
           products = [i \in 1..Len(FixedProducts) |->
                          [FixedProducts[i] EXCEPT !.unit_cost = <<c1, c2, c3>>[i]]]
    /\ warehouses = FixedWarehouses
    /\ inventory = FixedInventory
    /\ suppliers = FixedSuppliers
    /\ sales_orders = FixedSalesOrders
    /\ sales_order_items = FixedSalesOrderItems
    /\ purchase_orders = FixedPurchaseOrders
    /\ purchase_order_items = FixedPurchaseOrderItems
    /\ stockout_events = FixedStockoutEvents
    /\ disk = [FixedDisk EXCEPT !.products = products]
    /\ scoring_input = <<>>
    /\ result = NoResult

(***************************************************************************)
(* Demand forecasting.                                                     *)
(***************************************************************************)
\* The product_id and warehouse_id filters; a filter of None (0 here, which
\* "if product_id:" treats alike) keeps every row.
FilterDemand(rows, product_id, warehouse_id) ==
    SelectSeq(rows, LAMBDA r :
        /\ product_id = 0 \/ r.product_id = product_id
        /\ warehouse_id = 0 \/ r.warehouse_id = warehouse_id)

\* groupby(['order_date', 'product_id'])['quantity_ordered'].sum(), for the
\* group keys in ascending order.
DemandOfKeys(rows, keys) ==
    [k \in 1..Len(keys) |->
        [order_date |-> keys[k][1], product_id |-> keys[k][2],
         quantity_ordered |-> SumQuantity(SelectSeq(rows, LAMBDA r :
                                  r.order_date = keys[k][1] /\ r.product_id = keys[k][2]))]]

DemandByDate(rows) ==
    DemandOfKeys(rows, Ascending({<<rows[i].order_date, rows[i].product_id>> :
                                     i \in 1..Len(rows)}))

demand_data(so, items, product_id, warehouse_id) ==
    DemandByDate(FilterDemand(NonCancelledSales(so, items), product_id, warehouse_id))

DemandProducts == {0, 1, 2}
DemandWarehouses == {0, 1}

prepare_demand_data ==
    /\ \E product_id \in DemandProducts, warehouse_id \in DemandWarehouses :
           result' = [op |-> "prepare_demand_data", args |-> <<product_id, warehouse_id>>,
                      ok |-> TRUE,
                      rows |-> demand_data(sales_orders, sales_order_items,
                                           product_id, warehouse_id)]
    /\ UNCHANGED <<tables, scoring_input, disk>>

\* The observed quantities alone, without the days in between.
DailySeriesObserved(demand) ==
    [t \in 1..Len(demand) |-> demand[t].quantity_ordered]

\* demand.set_index('order_date').reindex(date_range(min, max), fill_value=0):
\* one value per day from the first to the last order date of the product, 0
\* on a day without a row.
DailySeries(demand) ==
    [t \in 1..(Last(demand).order_date - demand[1].order_date + 1) |->
        SumQuantity(SelectSeq(demand, LAMBDA r : r.order_date = demand[1].order_date + t - 1))]

\* rolling(window, min_periods=1).mean() at the last day.
RollingMean(values, window) ==
    LET k == IF window < Len(values) THEN window ELSE Len(values)
    IN  Rat(SumInts(SubSeq(values, Len(values) - k + 1, Len(values))), k)

\* The forecast starting at the last day itself.
ForecastRowsFromLastDay(last_date, quantity, forecast_days, method) ==
    [i \in 1..forecast_days |->
        [date |-> last_date + i - 1, forecasted_quantity |-> quantity, method |-> method]]

\* date_range(last day + 1, periods=forecast_days), one quantity on every row.
ForecastRows(last_date, quantity, forecast_days, method) ==
    [i \in 1..forecast_days |->
        [date |-> last_date + i, forecasted_quantity |-> quantity, method |-> method]]

\* reindex raises on an index with a date twice: the rows of two products on
\* one day, which an unfiltered demand table holds.
ReindexRaises(demand) ==
    \E i \in 1..Len(demand) : \E j \in (i + 1)..Len(demand) :
        demand[i].order_date = demand[j].order_date

\* What a forecast call ends with: the exception of reindex, or the rows.
ForecastResult(op, args, demand, rows) ==
    IF ReindexRaises(demand) THEN [op |-> op, args |-> args, ok |-> FALSE, rows |-> <<>>]
    ELSE [op |-> op, args |-> args, ok |-> TRUE, rows |-> rows]

moving_average(demand, window, forecast_days) ==
    IF demand = <<>> THEN <<>>
    ELSE ForecastRows(Last(demand).order_date,
                      RoundHalfEven(RollingMean(DailySeries(demand), window)),
                      forecast_days, "Moving Average")

MovingAverageResult(args, demand) ==
    ForecastResult("moving_average", args, demand, moving_average(demand, args[2], args[3]))

\* A product_id of 0 is no filter at all ("if product_id:").
ForecastProducts == {0, 1, 2}
Windows == {1, 2, 7}
ForecastDays == {1, 3}

moving_average_forecast ==
    /\ \E product_id \in ForecastProducts, window \in Windows, forecast_days \in ForecastDays :
           result' = MovingAverageResult(
                         <<product_id, window, forecast_days>>,
                         demand_data(sales_orders, sales_order_items, product_id, 0))
    /\ UNCHANGED <<tables, scoring_input, disk>>

RECURSIVE SmoothedSwapped(_, _, _)
\* The recursion with the two weights exchanged.
SmoothedSwapped(values, alpha, i) ==
    IF i = 1 THEN RInt(values[1])
    ELSE RAdd(RMul(RSub(RInt(1), alpha), RInt(values[i])),
              RMul(alpha, SmoothedSwapped(values, alpha, i - 1)))

RECURSIVE Smoothed(_, _, _)
\* smoothed[i - 1] of the loop: values[0] first, then
\* alpha * values[i] + (1 - alpha) * smoothed[-1].
Smoothed(values, alpha, i) ==
    IF i = 1 THEN RInt(values[1])
    ELSE RAdd(RMul(alpha, RInt(values[i])),
              RMul(RSub(RInt(1), alpha), Smoothed(values, alpha, i - 1)))

LastSmoothed(values, alpha) == Smoothed(values, alpha, Len(values))

exponential_smoothing(demand, alpha, forecast_days) ==
    IF demand = <<>> THEN <<>>
    ELSE ForecastRows(Last(demand).order_date,
                      RoundHalfEven(LastSmoothed(DailySeries(demand), alpha)),
                      forecast_days, "Exponential Smoothing")

SmoothingResult(args, demand) ==
    ForecastResult("exponential_smoothing", args, demand,
                   exponential_smoothing(demand, args[2], args[3]))

Alphas == {<<0, 1>>, <<1, 4>>, <<1, 1>>}

exponential_smoothing_forecast ==
    /\ \E product_id \in ForecastProducts, alpha \in Alphas, forecast_days \in ForecastDays :
           result' = SmoothingResult(
                         <<product_id, alpha, forecast_days>>,
                         demand_data(sales_orders, sales_order_items, product_id, 0))
    /\ UNCHANGED <<tables, scoring_input, disk>>

\* The order dates of a short history, with a day without orders in it.
ForecastDates == <<0, 1, 3>>
NumForecastKinds == Len(ForecastDates) * KindsPerDate
ForecastDate(k) == ForecastDates[((k - 1) \div KindsPerDate) + 1]

\* __init__/_load_data of DemandForecaster: the sales tables range over every
\* history of up to MaxOrders orders on the days of ForecastDates.
InitForecast ==
    /\ products = FixedProducts
    /\ warehouses = FixedWarehouses
    /\ inventory = FixedInventory
    /\ suppliers = FixedSuppliers
    /\ purchase_orders = FixedPurchaseOrders
    /\ purchase_order_items = FixedPurchaseOrderItems
    /\ \E n \in 1..MaxOrders : \E f \in [1..n -> 1..NumForecastKinds] :
           /\ \A i \in 1..(n - 1) : f[i] <= f[i + 1]
           /\ sales_orders = [i \in 1..n |->
                  [so_id |-> i, warehouse_id |-> SaleLine(f[i]).warehouse_id,
                   order_date |-> ForecastDate(f[i]), status |-> SaleStatus(f[i])]]
           /\ sales_order_items = [i \in 1..n |->
                  [so_id |-> i, product_id |-> SaleLine(f[i]).product_id,
                   quantity_ordered |-> SaleLine(f[i]).quantity_ordered,
                   unit_price |-> SaleLine(f[i]).unit_price]]
    /\ stockout_events = FixedStockoutEvents
    /\ disk = FixedDisk
    /\ scoring_input = <<>>
    /\ result = NoResult

(***************************************************************************)
(* Stockout analysis.                                                      *)
(***************************************************************************)
\* groupby(['warehouse_id', 'product_id']).agg(stockout_id count,
\* duration_days mean, demand_during_stockout sum, lost_sales_amount sum) of
\* one group; duration_days = stockout_end_date - stockout_start_date.
ImpactOfGroup(key, g) ==
    [warehouse_id |-> key[1], product_id |-> key[2],
     stockout_count |-> Len(g),
     avg_duration_days |->
         MeanInts([i \in 1..Len(g) |-> g[i].stockout_end_date - g[i].stockout_start_date]),
     total_lost_units |-> SumInts([i \in 1..Len(g) |-> g[i].demand_during_stockout]),
     total_lost_revenue |-> SumRats([i \in 1..Len(g) |-> g[i].lost_sales_amount])]

ImpactOfKeys(events, keys) ==
    [k \in 1..Len(keys) |->
        ImpactOfGroup(keys[k], SelectSeq(events, LAMBDA e :
            e.warehouse_id = keys[k][1] /\ e.product_id = keys[k][2]))]

ImpactByWarehouseProduct(events) ==
    ImpactOfKeys(events, Ascending({<<events[i].warehouse_id, events[i].product_id>> :
                                       i \in 1..Len(events)}))

\* impact.merge(products[['product_id', 'sku', 'product_name']], on='product_id')
ImpactProducts(impact, prods) ==
    Flatten([i \in 1..Len(impact) |->
        LET ps == SelectSeq(prods, LAMBDA p : p.product_id = impact[i].product_id)
        IN  [j \in 1..Len(ps) |-> [row |-> impact[i], sku |-> ps[j].sku]]])

\* impact.merge(warehouses[['warehouse_id', 'warehouse_code']], on='warehouse_id')
ImpactWarehouses(rows, whs) ==
    Flatten([i \in 1..Len(rows) |->
        LET ws == SelectSeq(whs, LAMBDA w : w.warehouse_id = rows[i].row.warehouse_id)
        IN  [j \in 1..Len(ws) |->
                [row |-> rows[i].row, sku |-> rows[i].sku,
                 warehouse_code |-> ws[j].warehouse_code]]])

\* The score computed from the mean duration as it is reported.
ImpactRowFromReported(r) ==
    [warehouse_code |-> r.warehouse_code, sku |-> r.sku,
     stockout_count |-> r.row.stockout_count,
     avg_duration_days |-> RoundDec(r.row.avg_duration_days, 10),
     total_lost_units |-> r.row.total_lost_units,
     total_lost_revenue |-> RoundDec(r.row.total_lost_revenue, 100),
     severity_score |->
         RoundDec(RAdd(RInt(r.row.stockout_count * 30),
                       RAdd(RMul(RoundDec(r.row.avg_duration_days, 10), RInt(10)),
                            RDiv(r.row.total_lost_revenue, RInt(100)))), 1)]

\* severity_score = stockout_count * 30 + avg_duration_days * 10 +
\* total_lost_revenue / 100, from the unrounded columns, then the roundings.
ImpactRow(r) ==
    [warehouse_code |-> r.warehouse_code, sku |-> r.sku,
     stockout_count |-> r.row.stockout_count,
     avg_duration_days |-> RoundDec(r.row.avg_duration_days, 10),
     total_lost_units |-> r.row.total_lost_units,
     total_lost_revenue |-> RoundDec(r.row.total_lost_revenue, 100),
     severity_score |->
         RoundDec(RAdd(RInt(r.row.stockout_count * 30),
                       RAdd(RMul(r.row.avg_duration_days, RInt(10)),
                            RDiv(r.row.total_lost_revenue, RInt(100)))), 1)]

ImpactTable(rows) == [i \in 1..Len(rows) |-> ImpactRow(rows[i])]

RECURSIVE SortBySeverityDesc(_)
\* sort_values('severity_score', ascending=False); rows of equal score keep
\* their order.
SortBySeverityDesc(rows) ==
    IF rows = <<>> THEN <<>>
    ELSE LET done == SortBySeverityDesc(Front(rows))
             x == Last(rows)
             before == SelectSeq(done, LAMBDA r : RGe(r.severity_score, x.severity_score))
             after == SelectSeq(done, LAMBDA r : ~RGe(r.severity_score, x.severity_score))
         IN  before \o <<x>> \o after

stockout_impact(events, prods, whs) ==
    SortBySeverityDesc(ImpactTable(
        ImpactWarehouses(ImpactProducts(ImpactByWarehouseProduct(events), prods), whs)))

\* The operation without its copy(): duration_days is written into the loaded
\* table.
analyze_stockout_impact_in_place ==
    /\ result' = [op |-> "stockout_impact", args |-> <<>>, ok |-> TRUE,
                  rows |-> stockout_impact(stockout_events, products, warehouses)]
    /\ stockout_events' = [i \in 1..Len(stockout_events) |->
           [stockout_id |-> stockout_events[i].stockout_id,
            warehouse_id |-> stockout_events[i].warehouse_id,
            product_id |-> stockout_events[i].product_id,
            stockout_start_date |-> stockout_events[i].stockout_start_date,
            stockout_end_date |-> stockout_events[i].stockout_end_date,
            demand_during_stockout |-> stockout_events[i].demand_during_stockout,
            lost_sales_amount |-> stockout_events[i].lost_sales_amount,
            root_cause |-> stockout_events[i].root_cause,
            duration_days |-> stockout_events[i].stockout_end_date
                                  - stockout_events[i].stockout_start_date]]
    /\ UNCHANGED <<products, warehouses, inventory, sales_orders, sales_order_items,
                   suppliers, purchase_orders, purchase_order_items, scoring_input, disk>>

\* stockouts = self.stockout_events.copy(): the new column goes to the copy.
analyze_stockout_impact ==
    /\ result' = [op |-> "stockout_impact", args |-> <<>>, ok |-> TRUE,
                  rows |-> stockout_impact(stockout_events, products, warehouses)]
    /\ UNCHANGED <<tables, scoring_input, disk>>

\* The share taken of one event more than the table has.
CauseOfGroupShareOfOthers(cause, g, total_events) ==
    [root_cause |-> cause, occurrence_count |-> Len(g),
     total_lost_revenue |-> RoundDec(SumRats([i \in 1..Len(g) |-> g[i].lost_sales_amount]), 100),
     total_lost_units |-> SumInts([i \in 1..Len(g) |-> g[i].demand_during_stockout]),
     pct_of_stockouts |-> RoundDec(RMul(Rat(Len(g), total_events + 1), RInt(100)), 100)]

\* groupby('root_cause').agg(stockout_id count, lost_sales_amount sum,
\* demand_during_stockout sum) of one cause, with its share of all events.
CauseOfGroup(cause, g, total_events) ==
    [root_cause |-> cause, occurrence_count |-> Len(g),
     total_lost_revenue |-> RoundDec(SumRats([i \in 1..Len(g) |-> g[i].lost_sales_amount]), 100),
     total_lost_units |-> SumInts([i \in 1..Len(g) |-> g[i].demand_during_stockout]),
     pct_of_stockouts |-> RoundDec(RMul(Rat(Len(g), total_events), RInt(100)), 100)]

\* total_events = cause_analysis['occurrence_count'].sum().
CauseTotalEvents(events, keys) ==
    SumInts([k \in 1..Len(keys) |->
        Len(SelectSeq(events, LAMBDA e : e.root_cause = keys[k][1]))])

CauseOfKeys(events, keys) ==
    [k \in 1..Len(keys) |->
        CauseOfGroup(keys[k][1], SelectSeq(events, LAMBDA e : e.root_cause = keys[k][1]),
                     CauseTotalEvents(events, keys))]

RECURSIVE SortByCountDesc(_)
\* sort_values('occurrence_count', ascending=False); rows of equal count keep
\* their order.
SortByCountDesc(rows) ==
    IF rows = <<>> THEN <<>>
    ELSE LET done == SortByCountDesc(Front(rows))
             x == Last(rows)
             before == SelectSeq(done, LAMBDA r : r.occurrence_count >= x.occurrence_count)
             after == SelectSeq(done, LAMBDA r : r.occurrence_count < x.occurrence_count)
         IN  before \o <<x>> \o after

root_causes(events) ==
    SortByCountDesc(CauseOfKeys(events,
        Ascending({<<events[i].root_cause>> : i \in 1..Len(events)})))

get_root_cause_analysis ==
    /\ result' = [op |-> "root_causes", args |-> <<>>, ok |-> TRUE,
                  rows |-> root_causes(stockout_events)]
    /\ UNCHANGED <<tables, scoring_input, disk>>

(***************************************************************************)
(* The data directory and the construction of an analytics object.         *)
(***************************************************************************)
Classes == {"InventoryAnalytics", "SupplierAnalytics", "DemandForecaster", "StockoutAnalyzer"}

\* The files _load_data of a class reads.
LoadedFiles(cls) ==
    CASE cls = "InventoryAnalytics" ->
             {"products", "inventory", "sales_orders", "sales_order_items", "purchase_orders",
              "purchase_order_items", "suppliers", "warehouses", "stockout_events"}
      [] cls = "SupplierAnalytics" -> {"suppliers", "purchase_orders", "purchase_order_items"}
      [] cls = "DemandForecaster" -> {"sales_orders", "sales_order_items", "products"}
      [] cls = "StockoutAnalyzer" -> {"stockout_events", "products", "warehouses"}

\* __init__: read_csv raises on the first file that is not there, and no
\* object comes to exist; otherwise the object holds what the files hold now.
construct ==
    /\ \E cls \in Classes :
           IF LoadedFiles(cls) \cap disk.missing # {}
           THEN /\ result' = [op |-> "init", args |-> <<cls>>, ok |-> FALSE, rows |-> <<>>]
                /\ UNCHANGED products
           ELSE /\ result' = [op |-> "init", args |-> <<cls>>, ok |-> TRUE, rows |-> <<>>]
                /\ products' = IF "products" \in LoadedFiles(cls) THEN disk.products
                               ELSE products
    /\ UNCHANGED <<warehouses, inventory, sales_orders, sales_order_items, suppliers,
                   purchase_orders, purchase_order_items, stockout_events, scoring_input, disk>>

\* A products file without product 2, which orders, inventory and stockout
\* events refer to.
ShortProducts == SelectSeq(FixedProducts, LAMBDA p : p.product_id # 2)

\* A categories file with category 1 renamed and category 2 gone.
OtherCategories == <<[category_id |-> 1, category_name |-> 11]>>

MissingFiles == {{}, {"products"}, {"product_categories"}, {"suppliers"}}

\* The data directory is rewritten (a dataset refresh, or a file removed)
\* while the objects are in use.
refresh_files ==
    /\ \E m \in MissingFiles, ps \in {FixedProducts, ShortProducts},
          cs \in {FixedCategories, OtherCategories} :
           disk' = [missing |-> m, products |-> ps, product_categories |-> cs]
    /\ UNCHANGED <<tables, scoring_input, result>>

\* A short sales history, one order of it cancelled.
SalesOrdersAll == <<
    [so_id |-> 1, warehouse_id |-> 1, order_date |-> 0, status |-> "Delivered"],
    [so_id |-> 2, warehouse_id |-> 1, order_date |-> 1, status |-> "Delivered"],
    [so_id |-> 3, warehouse_id |-> 1, order_date |-> 3, status |-> "Delivered"],
    [so_id |-> 4, warehouse_id |-> 1, order_date |-> 3, status |-> "Cancelled"] >>

SalesOrderItemsAll == <<
    [so_id |-> 1, product_id |-> 1, quantity_ordered |-> 2, unit_price |-> 30],
    [so_id |-> 2, product_id |-> 2, quantity_ordered |-> 1, unit_price |-> 20],
    [so_id |-> 3, product_id |-> 1, quantity_ordered |-> 1, unit_price |-> 30],
    [so_id |-> 4, product_id |-> 1, quantity_ordered |-> 2, unit_price |-> 20] >>

\* The objects of the four classes, constructed on one data directory.
InitAll ==
    /\ products = FixedProducts
    /\ warehouses = FixedWarehouses
    /\ inventory = FixedInventory
    /\ suppliers = FixedSuppliers
    /\ sales_orders = SalesOrdersAll
    /\ sales_order_items = SalesOrderItemsAll
    /\ purchase_orders = FixedPurchaseOrders
    /\ purchase_order_items = FixedPurchaseOrderItems
    /\ stockout_events = FixedStockoutEvents
    /\ disk = FixedDisk
    /\ scoring_input = <<>>
    /\ result = NoResult

\* The stockout events a history is drawn from.
StockoutKinds == <<
    [warehouse_id |-> 1, product_id |-> 1, stockout_start_date |-> 100, stockout_end_date |-> 101,
     demand_during_stockout |-> 2, lost_sales_amount |-> <<10, 1>>, root_cause |-> 1],
    [warehouse_id |-> 1, product_id |-> 1, stockout_start_date |-> 120, stockout_end_date |-> 121,
     demand_during_stockout |-> 0, lost_sales_amount |-> <<0, 1>>, root_cause |-> 1],
    [warehouse_id |-> 1, product_id |-> 1, stockout_start_date |-> 200, stockout_end_date |-> 202,
     demand_during_stockout |-> 1, lost_sales_amount |-> <<17, 2>>, root_cause |-> 2],
    [warehouse_id |-> 1, product_id |-> 2, stockout_start_date |-> 100, stockout_end_date |-> 107,
     demand_during_stockout |-> 6, lost_sales_amount |-> <<120, 1>>, root_cause |-> 1],
    [warehouse_id |-> 1, product_id |-> 2, stockout_start_date |-> 150, stockout_end_date |-> 150,
     demand_during_stockout |-> 0, lost_sales_amount |-> <<0, 1>>, root_cause |-> 3],
    [warehouse_id |-> 2, product_id |-> 1, stockout_start_date |-> 150, stockout_end_date |-> 153,
     demand_during_stockout |-> 1, lost_sales_amount |-> <<3015, 100>>, root_cause |-> 2],
    [warehouse_id |-> 2, product_id |-> 3, stockout_start_date |-> 300, stockout_end_date |-> 301,
     demand_during_stockout |-> 4, lost_sales_amount |-> <<20, 1>>, root_cause |-> 3] >>

\* __init__/_load_data of StockoutAnalyzer: the events range over every log of
\* up to MaxEvents events.
InitStockout ==
    /\ products = FixedProducts
    /\ warehouses = FixedWarehouses
    /\ inventory = FixedInventory
    /\ suppliers = FixedSuppliers
    /\ sales_orders = FixedSalesOrders
    /\ sales_order_items = FixedSalesOrderItems
    /\ purchase_orders = FixedPurchaseOrders
    /\ purchase_order_items = FixedPurchaseOrderItems
    /\ \E n \in 1..MaxEvents : \E f \in [1..n -> 1..Len(StockoutKinds)] :
           /\ \A i \in 1..(n - 1) : f[i] <= f[i + 1]
           /\ stockout_events = [i \in 1..n |->
                  [stockout_id |-> i,
                   warehouse_id |-> StockoutKinds[f[i]].warehouse_id,
                   product_id |-> StockoutKinds[f[i]].product_id,
                   stockout_start_date |-> StockoutKinds[f[i]].stockout_start_date,
                   stockout_end_date |-> StockoutKinds[f[i]].stockout_end_date,
                   demand_during_stockout |-> StockoutKinds[f[i]].demand_during_stockout,
                   lost_sales_amount |-> StockoutKinds[f[i]].lost_sales_amount,
                   root_cause |-> StockoutKinds[f[i]].root_cause]]
    /\ disk = FixedDisk
    /\ scoring_input = <<>>
    /\ result = NoResult

Next ==
    \/ calculate_abc_classification
    \/ calculate_inventory_turnover
    \/ calculate_reorder_points
    \/ calculate_eoq

Spec == Init /\ [][Next]_vars

NextSup ==
    \/ calculate_supplier_scores
    \/ analyze_lead_time_variability
    \/ calculate_reorder_points_default
    \/ apply_scoring

SpecSup == InitSup /\ [][NextSup]_vars

NextScore ==
    \/ apply_scoring
    \/ report_scoring

SpecScore == InitScore /\ [][NextScore]_vars

NextCost == calculate_carrying_costs

SpecCost == InitCost /\ [][NextCost]_vars

NextForecast ==
    \/ moving_average_forecast
    \/ exponential_smoothing_forecast

SpecForecast == InitForecast /\ [][NextForecast]_vars

NextAll ==
    \/ calculate_abc_classification
    \/ calculate_inventory_turnover
    \/ calculate_reorder_points
    \/ calculate_eoq
    \/ calculate_carrying_costs
    \/ calculate_supplier_scores
    \/ analyze_lead_time_variability
    \/ prepare_demand_data
    \/ moving_average_forecast
    \/ exponential_smoothing_forecast
    \/ analyze_stockout_impact
    \/ get_root_cause_analysis
    \/ construct
    \/ refresh_files

SpecAll == InitAll /\ [][NextAll]_vars

NextEoq == apply_eoq

SpecEoq == InitEoq /\ [][NextEoq]_vars

NextStockout ==
    \/ analyze_stockout_impact
    \/ get_root_cause_analysis

SpecStockout == InitStockout /\ [][NextStockout]_vars

(***************************************************************************)
(* Properties.                                                             *)
(***************************************************************************)
AbcRows == IF result.op = "abc" THEN result.rows ELSE <<>>
TurnoverRows == IF result.op = "turnover" THEN result.rows ELSE <<>>
RopRows == IF result.op = "rop" /\ result.ok THEN result.rows ELSE <<>>
EoqRows == IF result.op = "eoq" /\ result.ok THEN result.rows ELSE <<>>
ScoreRows == IF result.op = "scores" THEN result.rows ELSE <<>>
LeadTimeRows == IF result.op = "lead_time" THEN result.rows ELSE <<>>
ScoredRows == IF result.op = "score_rows" THEN result.rows ELSE <<>>

\* C1: in the table calculate_abc_classification returns, the rows are in
\* descending order of revenue, the cumulative revenue percentage never
\* decreases from a row to the next, and the class of every row is the band of
\* its cumulative percentage: A up to a_threshold, B above it up to
\* b_threshold, C otherwise.
AbcMonotoneAndBanded ==
    LET a == RInt(result.args[2])
        b == RInt(result.args[3])
    IN  /\ \A i \in 1..(Len(AbcRows) - 1) :
               /\ ~RLt(AbcRows[i].total_revenue, AbcRows[i + 1].total_revenue)
               /\ ~RGt(AbcRows[i].cumulative_pct, AbcRows[i + 1].cumulative_pct)
        /\ \A i \in 1..Len(AbcRows) :
               LET pct == AbcRows[i].cumulative_pct
               IN  /\ AbcRows[i].abc_class = "A" <=> RLe(pct, a)
                   /\ AbcRows[i].abc_class = "B" <=> (RGt(pct, a) /\ RLe(pct, b))
                   /\ AbcRows[i].abc_class = "C" <=> ~(RLe(pct, a) \/ (RGt(pct, a) /\ RLe(pct, b)))

\* C1 witness: a classification of two products with different revenue, the
\* first in class A or B and the last in class C.
AbcTwoClasses ==
    /\ Len(AbcRows) >= 2
    /\ RGt(AbcRows[1].total_revenue, AbcRows[2].total_revenue)
    /\ RLt(AbcRows[1].cumulative_pct, AbcRows[2].cumulative_pct)
    /\ AbcRows[1].abc_class # "C"
    /\ AbcRows[Len(AbcRows)].abc_class = "C"

\* The sales orders without the cancelled ones.
WithoutCancelled(so) == SelectSeq(so, LAMBDA o : o.status # "Cancelled")

\* C2: cancelled sales orders take no part in the revenue and demand
\* calculations: calculate_abc_classification and calculate_reorder_points
\* return what they return for the dataset without its cancelled orders.
CancelledOrdersExcluded ==
    /\ result.op = "abc" =>
           result.rows = abc_classification(WithoutCancelled(sales_orders), sales_order_items,
                             products, result.args[1], result.args[2], result.args[3])
    /\ (result.op = "rop" /\ result.ok) =>
           result.rows = reorder_points(WithoutCancelled(sales_orders), sales_order_items,
                             products, warehouses, inventory, purchase_orders,
                             norm_ppf(result.args[1]), result.args[2])

\* C3: in the table calculate_inventory_turnover returns, turnover_ratio is
\* never negative, it is 0 when inventory_value is 0, days_of_supply times
\* turnover_ratio is 365 when the ratio is positive, and days_of_supply is
\* infinite when the ratio is 0.
TurnoverGuarded ==
    \A i \in 1..Len(TurnoverRows) :
        LET r == TurnoverRows[i]
        IN  /\ IsFinite(r.turnover_ratio) /\ r.turnover_ratio[1] >= 0
            /\ r.inventory_value = RInt(0) => r.turnover_ratio = RInt(0)
            /\ r.turnover_ratio[1] > 0 =>
                   /\ IsFinite(r.days_of_supply)
                   /\ r.days_of_supply[1] * r.turnover_ratio[1]
                          = 365 * r.days_of_supply[2] * r.turnover_ratio[2]
            /\ r.turnover_ratio[1] = 0 => r.days_of_supply = Inf

\* C3 witness: a turnover table with a row of positive ratio and a row whose
\* inventory is worth 0 although the product was sold.
TurnoverBothCases ==
    /\ \E i \in 1..Len(TurnoverRows) : TurnoverRows[i].turnover_ratio[1] > 0
    /\ \E i \in 1..Len(TurnoverRows) :
           /\ TurnoverRows[i].inventory_value = RInt(0)
           /\ TurnoverRows[i].cogs_annual[1] > 0

\* avg_daily_demand x avg_lead_time of a reorder point row.
LeadTimeDemand(r) == RMul(r.avg_daily_demand, r.avg_lead_time)

\* C4 as claimed: for every service level calculate_reorder_points accepts,
\* every row has safety_stock >= 0 and calculated_rop >= avg_daily_demand x
\* avg_lead_time.
RopCoversLeadTimeDemand ==
    \A i \in 1..Len(RopRows) :
        /\ RopRows[i].safety_stock >= 0
        /\ RGe(RInt(RopRows[i].calculated_rop), LeadTimeDemand(RopRows[i]))

\* C4 as amended: for a service level of at least 0.5, every row has
\* safety_stock >= 0 and calculated_rop >= avg_daily_demand x avg_lead_time - 0.5
\* (the rounding to an integer can take up to half a unit); for a service
\* level below 0.5, every row has safety_stock <= 0 and calculated_rop <=
\* avg_daily_demand x avg_lead_time + 0.5.
RopCoversLeadTimeDemandRounded ==
    result.op = "rop" =>
        \A i \in 1..Len(RopRows) :
            IF result.args[1] >= 50000
            THEN /\ RopRows[i].safety_stock >= 0
                 /\ RGe(RInt(RopRows[i].calculated_rop),
                        RSub(LeadTimeDemand(RopRows[i]), <<1, 2>>))
            ELSE /\ RopRows[i].safety_stock <= 0
                 /\ RLe(RInt(RopRows[i].calculated_rop),
                        RAdd(LeadTimeDemand(RopRows[i]), <<1, 2>>))

\* C4 witness: at service level 0.5, a row whose reorder point was rounded
\* below the lead time demand.
RopRoundedBelow ==
    /\ result.op = "rop" /\ result.args[1] = 50000
    /\ \E i \in 1..Len(RopRows) :
           /\ RopRows[i].safety_stock = 0
           /\ RLt(RInt(RopRows[i].calculated_rop), LeadTimeDemand(RopRows[i]))

\* The purchase orders with a line for the product.
PosOfProduct(product_id) ==
    SelectSeq(purchase_orders, LAMBDA po :
        \E i \in 1..Len(purchase_order_items) :
            /\ purchase_order_items[i].po_id = po.po_id
            /\ purchase_order_items[i].product_id = product_id)

\* C5: the lead time of a reorder point row is the mean actual lead time of
\* the Delivered purchase orders of a supplier of the product, and the
\* product's static lead_time_days only when there is no such order.
LeadTimeFromDeliveredHistory ==
    \A i \in 1..Len(RopRows) :
        \A p \in Range(products) :
            p.sku = RopRows[i].sku =>
                LET pos == PosOfProduct(p.product_id)
                    history == {k \in Range(SupplierIds) : DeliveredLeadTimes(pos, k) # <<>>}
                IN  IF history = {}
                    THEN RopRows[i].avg_lead_time = RInt(p.lead_time_days)
                    ELSE \E k \in history :
                             RopRows[i].avg_lead_time = MeanInts(DeliveredLeadTimes(pos, k))

\* cost(Q) = D*S/Q + H*Q/2
Cost(D, S, H, Q) == RAdd(RDiv(RInt(D * S), RInt(Q)), RDiv(RMul(H, RInt(Q)), RInt(2)))

\* The rows of the EOQ table with positive demand and an order quantity of at
\* least 1, with the inputs of the cost function.
EoqCases ==
    {[D |-> EoqRows[i].annual_demand, S |-> result.args[1],
      H |-> RMul(EoqRows[i].unit_cost, result.args[2]), eoq |-> EoqRows[i].eoq] :
        i \in {j \in 1..Len(EoqRows) : EoqRows[j].annual_demand > 0 /\ EoqRows[j].eoq >= 1}}

\* C6 as claimed: the order quantity of every row is a local minimum of the
\* cost: cost(eoq) <= cost(eoq + 1) and, for eoq >= 2, cost(eoq) <= cost(eoq - 1).
EoqLocalMinimum ==
    \A c \in EoqCases :
        /\ RLe(Cost(c.D, c.S, c.H, c.eoq), Cost(c.D, c.S, c.H, c.eoq + 1))
        /\ c.eoq >= 2 => RLe(Cost(c.D, c.S, c.H, c.eoq), Cost(c.D, c.S, c.H, c.eoq - 1))

\* C6 as amended: eoq is sqrt(2DS/H) rounded to the nearest integer, so
\* cost(eoq) <= cost(eoq - 1) for eoq >= 2 and cost(eoq) <= cost(eoq + 2), and
\* cost(eoq) <= cost(eoq + 1) when 2DS/H <= eoq * (eoq + 1).
EoqNearestToOptimum ==
    \A c \in EoqCases :
        LET q2 == RDiv(RInt(2 * c.D * c.S), c.H)
        IN  /\ RLe(Rat((2 * c.eoq - 1) * (2 * c.eoq - 1), 4), q2)
            /\ RLe(q2, Rat((2 * c.eoq + 1) * (2 * c.eoq + 1), 4))
            /\ c.eoq >= 2 => RLe(Cost(c.D, c.S, c.H, c.eoq), Cost(c.D, c.S, c.H, c.eoq - 1))
            /\ RLe(Cost(c.D, c.S, c.H, c.eoq), Cost(c.D, c.S, c.H, c.eoq + 2))
            /\ RLe(q2, RInt(c.eoq * (c.eoq + 1))) =>
                   RLe(Cost(c.D, c.S, c.H, c.eoq), Cost(c.D, c.S, c.H, c.eoq + 1))

\* C6 witness: a row with eoq >= 2 that was rounded down and costs more than
\* the next integer, and a row that is a local minimum.
EoqRoundedDown ==
    /\ \E c \in EoqCases :
           /\ c.eoq >= 2
           /\ RGt(Cost(c.D, c.S, c.H, c.eoq), Cost(c.D, c.S, c.H, c.eoq + 1))
    /\ \E c \in EoqCases :
           /\ c.eoq >= 2
           /\ RLe(Cost(c.D, c.S, c.H, c.eoq), Cost(c.D, c.S, c.H, c.eoq + 1))

\* Bronze < Silver < Gold < Platinum
TierRank(tier) ==
    IF tier = "Platinum" THEN 4
    ELSE IF tier = "Gold" THEN 3
    ELSE IF tier = "Silver" THEN 2
    ELSE 1

\* C7: the tier never gets lower when on_time_rate and fill_rate both get no
\* lower, and the tier is Platinum iff on_time >= 95 and fill >= 98, else Gold
\* iff on_time >= 90 and fill >= 95, else Silver iff on_time >= 80 and fill >=
\* 90, else Bronze.
TierMonotoneAndBanded ==
    /\ \A i, j \in 1..Len(ScoredRows) :
           (/\ RGe(ScoredRows[j].on_time_rate, ScoredRows[i].on_time_rate)
            /\ RGe(ScoredRows[j].fill_rate, ScoredRows[i].fill_rate))
               => TierRank(ScoredRows[j].tier) >= TierRank(ScoredRows[i].tier)
    /\ \A i \in 1..Len(ScoredRows) :
           LET r == ScoredRows[i]
               platinum == RGe(r.on_time_rate, RInt(95)) /\ RGe(r.fill_rate, RInt(98))
               gold == RGe(r.on_time_rate, RInt(90)) /\ RGe(r.fill_rate, RInt(95))
               silver == RGe(r.on_time_rate, RInt(80)) /\ RGe(r.fill_rate, RInt(90))
           IN  /\ r.tier = "Platinum" <=> platinum
               /\ r.tier = "Gold" <=> (~platinum /\ gold)
               /\ r.tier = "Silver" <=> (~platinum /\ ~gold /\ silver)
               /\ r.tier = "Bronze" <=> (~platinum /\ ~gold /\ ~silver)

\* C7 witness: two scored rows, the second with a higher on-time rate and a
\* higher fill rate than the first, the first Gold and the second Platinum.
TierRaisedByDominance ==
    /\ Len(ScoredRows) = 2
    /\ RGt(ScoredRows[2].on_time_rate, ScoredRows[1].on_time_rate)
    /\ RGt(ScoredRows[2].fill_rate, ScoredRows[1].fill_rate)
    /\ ScoredRows[1].tier = "Gold"
    /\ ScoredRows[2].tier = "Platinum"

\* The consistency score of a standard deviation given by its square.
ConsistencyBucket(var_variance) ==
    IF IsNaN(var_variance) \/ RLe(var_variance, RInt(1 * 1)) THEN 20
    ELSE IF RLe(var_variance, RInt(3 * 3)) THEN 15
    ELSE IF RLe(var_variance, RInt(7 * 7)) THEN 10
    ELSE 5

WithoutUndated(pos) ==
    SelectSeq(pos, LAMBDA po : ~(po.status = "Delivered" /\ po.actual_delivery_date = NaT))

\* C9: a Delivered purchase order with no actual_delivery_date changes none of
\* total_orders, on_time_rate and fill_rate of calculate_supplier_scores and
\* none of delivery_count and the lead time mean and standard deviation of
\* analyze_lead_time_variability.
UndatedDeliveriesIgnored ==
    /\ result.op = "scores" =>
           LET expected == ScoresOf(suppliers,
                                    WithoutUndated(RecentPos(purchase_orders, result.args[1])),
                                    purchase_order_items)
               Stats(r) == <<r.supplier_code, r.total_orders, r.on_time_rate, r.fill_rate>>
           IN  {Stats(r) : r \in Range(ScoreRows)} = {Stats(r) : r \in Range(expected)}
    /\ result.op = "lead_time" =>
           LET expected == lead_time_variability(suppliers, WithoutUndated(purchase_orders))
               Stats(r) == <<r.supplier_code, r.delivery_count, r.avg_lead_time,
                             r.var_lead_time>>
           IN  {Stats(r) : r \in Range(LeadTimeRows)} = {Stats(r) : r \in Range(expected)}

\* The orders of the trailing year: not older than 365 days before the latest
\* order date.
TrailingYear(so) ==
    SelectSeq(so, LAMBDA o : o.order_date >= MaxOrderDate(so) - 365)

\* C10: a sales order older than the trailing window contributes nothing to
\* cogs_annual of calculate_inventory_turnover or to annual_demand of
\* calculate_eoq: both are what the orders of the trailing year alone give.
AnnualQuantitiesFromTrailingWindow ==
    /\ result.op = "turnover" =>
           LET expected == inventory_turnover(TrailingYear(sales_orders), sales_order_items,
                                              products, warehouses, inventory, result.args[1])
           IN  /\ Len(TurnoverRows) = Len(expected)
               /\ \A i \in 1..Len(expected) :
                      TurnoverRows[i].cogs_annual = expected[i].cogs_annual
    /\ (result.op = "eoq" /\ result.ok) =>
           LET expected == AnnualDemand(TrailingYear(sales_orders), sales_order_items, products)
           IN  {<<r.sku, r.annual_demand>> : r \in Range(EoqRows)} =
                   {<<r.sku, r.annual_demand>> : r \in Range(expected)}

CarryingRows == IF result.op = "carrying_costs" /\ result.ok THEN result.rows ELSE <<>>

\* |a - b| <= tol
Within(a, b, tol) == RLe(RSub(a, b), tol) /\ RLe(RSub(b, a), tol)

ComponentSum(r) ==
    RAdd(r.capital_cost, RAdd(r.storage_cost, RAdd(r.insurance_cost,
         RAdd(r.obsolescence_cost, r.handling_cost))))

RecommendationBands ==
    \A i \in 1..Len(RopRows) :
        LET r == RopRows[i]
            above == 5 * (r.calculated_rop - r.current_rop) > r.current_rop
            below == 5 * (r.calculated_rop - r.current_rop) < -r.current_rop
        IN  /\ r.recommendation \in {"Increase ROP", "Decrease ROP", "Optimal"}
            /\ r.recommendation = "Increase ROP" <=> above
            /\ r.recommendation = "Decrease ROP" <=> below
            /\ r.recommendation = "Optimal" <=> ~above /\ ~below
            /\ r.current_rop >= 0 => ~(above /\ below)

\* A reorder point table with a row left "Optimal" although its calculated
\* reorder point differs from the current one, and a row for a current reorder
\* point of 0 that is to be increased.
RecommendationInsideBand ==
    /\ \E i \in 1..Len(RopRows) :
           /\ RopRows[i].recommendation = "Optimal"
           /\ RopRows[i].calculated_rop # RopRows[i].current_rop
    /\ \E i \in 1..Len(RopRows) :
           RopRows[i].current_rop = 0 /\ RopRows[i].recommendation = "Increase ROP"

\* C13: no row of the EOQ table carries an infinite or undefined
\* orders_per_year or days_between_orders (eoq itself is an integer in every
\* row that is returned).
EoqRowsDefined ==
    \A i \in 1..Len(EoqRows) :
        /\ IsFinite(EoqRows[i].orders_per_year)
        /\ IsFinite(EoqRows[i].days_between_orders)

MovingAverageRows == IF result.op = "moving_average" THEN result.rows ELSE <<>>
SmoothingRows == IF result.op = "exponential_smoothing" THEN result.rows ELSE <<>>
ForecastOps == {"moving_average", "exponential_smoothing"}

\* The order a line item belongs to.
OrderOf(it) == CHOOSE o \in Range(sales_orders) : o.so_id = it.so_id

\* What was sold of a product on a day, from the tables themselves.
SoldOn(product_id, day) ==
    SumInts([i \in 1..Len(sales_order_items) |->
        IF /\ sales_order_items[i].product_id = product_id
           /\ OrderOf(sales_order_items[i]).status # "Cancelled"
           /\ OrderOf(sales_order_items[i]).order_date = day
        THEN sales_order_items[i].quantity_ordered ELSE 0])

\* The days a product has orders on that are not cancelled.
ObservedDays(product_id) ==
    {OrderOf(it).order_date : it \in {x \in Range(sales_order_items) :
        x.product_id = product_id /\ OrderOf(x).status # "Cancelled"}}

FirstDay(product_id) == CHOOSE d \in ObservedDays(product_id) :
                            \A e \in ObservedDays(product_id) : d <= e
LastDay(product_id) == Max(ObservedDays(product_id))

\* C18: the moving average forecast of a product is the mean of the last
\* min(window, n) values of its daily series, the n days from its first to its
\* last observed order date with 0 on a day without sales, rounded to an
\* integer.
MovingAverageOfZeroFilledSeries ==
    result.op = "moving_average" /\ ObservedDays(result.args[1]) # {} =>
        LET p == result.args[1]
            n == LastDay(p) - FirstDay(p) + 1
            k == IF result.args[2] < n THEN result.args[2] ELSE n
            total == SumInts([j \in 1..k |-> SoldOn(p, LastDay(p) - k + j)])
        IN  /\ result.rows # <<>>
            /\ \A i \in 1..Len(result.rows) :
                   LET q == result.rows[i].forecasted_quantity
                   IN  2 * (k * q - total) <= k /\ 2 * (total - k * q) <= k

\* A moving average over a window of two days of a history of three or more
\* days, the day before the last without sales: the forecast is half of the
\* last day's 2 units.
MovingAverageOverGap ==
    /\ result.op = "moving_average" /\ result.args[2] = 2
    /\ ObservedDays(result.args[1]) # {}
    /\ LastDay(result.args[1]) - FirstDay(result.args[1]) >= 2
    /\ SoldOn(result.args[1], LastDay(result.args[1]) - 1) = 0
    /\ SoldOn(result.args[1], LastDay(result.args[1])) = 2
    /\ result.rows # <<>> /\ result.rows[1].forecasted_quantity = 1

RECURSIVE RPow(_, _)
RPow(x, n) == IF n = 0 THEN RInt(1) ELSE RMul(x, RPow(x, n - 1))

\* The daily series of a product, from the tables themselves.
SeriesOf(product_id) ==
    [t \in 1..(LastDay(product_id) - FirstDay(product_id) + 1) |->
        SoldOn(product_id, FirstDay(product_id) + t - 1)]

\* S_n of S_0 = x_0, S_t = alpha x_t + (1 - alpha) S_(t-1), written out:
\* (1 - alpha)^(n-1) x_1 + sum over t > 1 of alpha (1 - alpha)^(n-t) x_t.
SmoothedClosedForm(x, alpha) ==
    SumRats([t \in 1..Len(x) |->
        IF t = 1 THEN RMul(RPow(RSub(RInt(1), alpha), Len(x) - 1), RInt(x[1]))
        ELSE RMul(RMul(alpha, RPow(RSub(RInt(1), alpha), Len(x) - t)), RInt(x[t]))])

\* C19: the exponential smoothing forecast is the final value of S_0 = x_0,
\* S_t = alpha x_t + (1 - alpha) S_(t-1) over the daily series, rounded to an
\* integer; with alpha = 1 it is the last day's demand, with alpha = 0 the
\* first day's, and for 0 <= alpha <= 1 it lies between the smallest and the
\* largest value of the series.
SmoothingRecurrence ==
    result.op = "exponential_smoothing" /\ ObservedDays(result.args[1]) # {} =>
        LET x == SeriesOf(result.args[1])
            alpha == result.args[2]
        IN  /\ result.rows # <<>>
            /\ \A i \in 1..Len(result.rows) :
                   LET q == result.rows[i].forecasted_quantity
                   IN  /\ Within(RInt(q), SmoothedClosedForm(x, alpha), <<1, 2>>)
                       /\ alpha = RInt(1) => q = Last(x)
                       /\ alpha = RInt(0) => q = x[1]
                       /\ \E t \in 1..Len(x) : x[t] <= q
                       /\ \E t \in 1..Len(x) : q <= x[t]

\* A smoothing with alpha = 1 over a history of three or more days whose
\* first and last day differ.
SmoothingFollowsLastDay ==
    /\ result.op = "exponential_smoothing" /\ result.args[2] = RInt(1)
    /\ ObservedDays(result.args[1]) # {}
    /\ Len(SeriesOf(result.args[1])) >= 3
    /\ SeriesOf(result.args[1])[1] # Last(SeriesOf(result.args[1]))
    /\ result.rows # <<>>

\* C20: for a product with sales history both forecasts return exactly
\* forecast_days rows, on the consecutive days that start the day after the
\* product's last observed order date, all with the same forecasted quantity.
ForecastRowsFollowHistory ==
    result.op \in ForecastOps /\ ObservedDays(result.args[1]) # {} =>
        /\ Len(result.rows) = result.args[3]
        /\ \A i \in 1..Len(result.rows) :
               /\ result.rows[i].date = LastDay(result.args[1]) + i
               /\ result.rows[i].forecasted_quantity = result.rows[1].forecasted_quantity

\* A forecast of three days for a product whose last order is older than the
\* last order of the tables.
ForecastAfterOlderHistory ==
    /\ result.op \in ForecastOps /\ result.args[3] = 3
    /\ ObservedDays(result.args[1]) # {}
    /\ LastDay(result.args[1]) < MaxOrderDate(sales_orders)
    /\ Len(result.rows) = 3

\* C14: no analysis operation mutates the loaded tables: over every sequence
\* of the twelve operations, with the data directory changing in between, a
\* step that is not the construction of an object leaves every table as it
\* was loaded.
LoadedTablesNeverMutated == [][result'.op = "init" \/ UNCHANGED tables]_vars

\* The stockout impact has been computed, with a row for each warehouse and
\* product of the events, and the events are as they were loaded.
StockoutImpactComputed ==
    /\ result.op = "stockout_impact" /\ Len(result.rows) = 2
    /\ stockout_events = FixedStockoutEvents

\* C15: every operation is a repeatable function of the snapshot loaded at
\* construction: calling an operation again on the same object with the same
\* arguments returns the same result, whatever happened to the files on disk
\* in between.
OperationsRepeatable ==
    [][(/\ result.op = result'.op
        /\ result.op \notin {"init", "none"}
        /\ result.args = result'.args) => result' = result]_vars

\* The products that orders not cancelled refer to.
SoldProducts ==
    {it.product_id : it \in {x \in Range(sales_order_items) : OrderOf(x).status # "Cancelled"}}

KnownProducts == {products[i].product_id : i \in 1..Len(products)}

\* C16: a missing reference row surfaces as an error: an operation that merges
\* the rows it reads with products fails when one of them refers to a
\* product_id that has no row in products.
MissingReferencesSurface ==
    /\ result.op \in {"abc", "eoq"} /\ ~(SoldProducts \subseteq KnownProducts) => ~result.ok
    /\ result.op = "stockout_impact"
         /\ ~({stockout_events[i].product_id : i \in 1..Len(stockout_events)} \subseteq KnownProducts)
         => ~result.ok

\* C17: a missing input table fails at construction: an InventoryAnalytics
\* object is constructed only if every table its operations read is there,
\* the product categories table included.
ConstructionChecksEveryTable ==
    result.op = "init" /\ result.ok /\ result.args = <<"InventoryAnalytics">>
        => "product_categories" \notin disk.missing

\* C21: both forecasts return an empty result, without raising, for every
\* product_id (0 included) that has no line item in an order not cancelled;
\* the sales of other products are not used.
ForecastEmptyWithoutHistory ==
    result.op \in ForecastOps /\ ObservedDays(result.args[1]) = {} =>
        result.ok /\ result.rows = <<>>

ImpactRows == IF result.op = "stockout_impact" THEN result.rows ELSE <<>>

\* The events of one warehouse and product, from the table itself.
EventsOf(w, p) ==
    SelectSeq(stockout_events, LAMBDA e : e.warehouse_id = w /\ e.product_id = p)

\* count * 30 + mean duration * 10 + lost revenue / 100 of a list of events.
Severity(g) ==
    RAdd(RInt(30 * Len(g)),
         RAdd(RMul(Rat(SumInts([i \in 1..Len(g) |->
                           g[i].stockout_end_date - g[i].stockout_start_date]), Len(g)),
                   RInt(10)),
              RDiv(SumRats([i \in 1..Len(g) |-> g[i].lost_sales_amount]), RInt(100))))

\* The (warehouse_code, sku) pairs that have events.
EventPairs ==
    {<<w.warehouse_code, p.sku>> : <<w, p>> \in
        {x \in Range(warehouses) \X Range(products) :
            EventsOf(x[1].warehouse_id, x[2].product_id) # <<>>}}

\* The events behind a row of the result.
EventsOfRow(r) ==
    SelectSeq(stockout_events, LAMBDA e :
        /\ \E w \in Range(warehouses) :
               w.warehouse_id = e.warehouse_id /\ w.warehouse_code = r.warehouse_code
        /\ \E p \in Range(products) : p.product_id = e.product_id /\ p.sku = r.sku)

SeverityNonIncreasing ==
    \A i \in 1..(Len(ImpactRows) - 1) :
        RGe(ImpactRows[i].severity_score, ImpactRows[i + 1].severity_score)

OneRowPerEventPair ==
    /\ {<<ImpactRows[i].warehouse_code, ImpactRows[i].sku>> : i \in 1..Len(ImpactRows)} = EventPairs
    /\ Len(ImpactRows) = Cardinality(EventPairs)

\* C22 as stated: the stockout impact has one row per (warehouse, product)
\* with events, the severity_score of a row equals count * 30 + mean duration
\* * 10 + lost revenue / 100, and the scores do not increase down the table.
SeverityIsFormula ==
    result.op = "stockout_impact" =>
        /\ OneRowPerEventPair
        /\ \A i \in 1..Len(ImpactRows) :
               ImpactRows[i].severity_score = Severity(EventsOfRow(ImpactRows[i]))
        /\ SeverityNonIncreasing

\* C22 with the rounding of the report: the severity_score of a row is
\* count * 30 + mean duration * 10 + lost revenue / 100 of the pair's events
\* rounded to the nearest integer, and the rows are in non-increasing order
\* of that rounded score.
SeverityIsRoundedFormula ==
    result.op = "stockout_impact" =>
        /\ OneRowPerEventPair
        /\ \A i \in 1..Len(ImpactRows) :
               /\ ImpactRows[i].severity_score =
                      RoundDec(Severity(EventsOfRow(ImpactRows[i])), 1)
               /\ ImpactRows[i].stockout_count = Len(EventsOfRow(ImpactRows[i]))
        /\ SeverityNonIncreasing

\* An impact table of two rows whose first row has a score that the formula
\* gives only after rounding.
SeverityRounded ==
    /\ Len(ImpactRows) >= 2
    /\ ImpactRows[1].severity_score # Severity(EventsOfRow(ImpactRows[1]))
    /\ ImpactRows[1].severity_score # ImpactRows[2].severity_score

\* The lead times of the dated Delivered orders of the supplier of a row.
LeadTimesOfRow(r) ==
    LET d == SelectSeq(purchase_orders, LAMBDA po :
                 /\ po.status = "Delivered"
                 /\ po.actual_delivery_date # NaT
                 /\ \E su \in Range(suppliers) :
                        su.supplier_id = po.supplier_id /\ su.supplier_code = r.supplier_code)
    IN  [i \in 1..Len(d) |-> d[i].actual_delivery_date - d[i].order_date]

SumSquares(lts) == SumInts([i \in 1..Len(lts) |-> lts[i] * lts[i]])

\* stdev / mean * 100 <= limit for lead times with a sample deviation and a
\* mean that is not 0, in integers:
\* (n * sum of squares - sum^2) / (n * (n - 1)) * 10000 <= limit^2 * sum^2 / n^2.
CvWithin(lts, limit) ==
    \/ SumInts(lts) < 0
    \/ (Len(lts) * SumSquares(lts) - SumInts(lts) * SumInts(lts)) * 10000 * Len(lts)
           <= limit * limit * SumInts(lts) * SumInts(lts) * (Len(lts) - 1)

BandOfLeadTimes(lts) ==
    IF Len(lts) < 2 \/ SumInts(lts) = 0 THEN "Highly Reliable"
    ELSE IF CvWithin(lts, 10) THEN "Highly Reliable"
    ELSE IF CvWithin(lts, 25) THEN "Reliable"
    ELSE IF CvWithin(lts, 40) THEN "Variable"
    ELSE "Unreliable"

\* C23: every supplier of the lead time report is classified by the
\* coefficient of variation of its lead times (<= 10 Highly Reliable, <= 25
\* Reliable, <= 40 Variable, else Unreliable), and is Highly Reliable
\* whenever it has a single dated delivery or a mean lead time of 0.
ReliabilityCategoryByBand ==
    \A i \in 1..Len(LeadTimeRows) :
        LeadTimeRows[i].reliability_category = BandOfLeadTimes(LeadTimesOfRow(LeadTimeRows[i]))

CauseRows == IF result.op = "root_causes" THEN result.rows ELSE <<>>

EventsOfCause(cause) == SelectSeq(stockout_events, LAMBDA e : e.root_cause = cause)

\* C24: the root cause analysis has one row per declared cause, whose
\* pct_of_stockouts is the cause's event count over the number of events in
\* the table times 100, as reported to two decimals; the occurrence counts
\* add up to the number of events.
RootCauseShares ==
    result.op = "root_causes" =>
        /\ {CauseRows[i].root_cause : i \in 1..Len(CauseRows)}
               = {stockout_events[i].root_cause : i \in 1..Len(stockout_events)}
        /\ \A i, j \in 1..Len(CauseRows) :
               CauseRows[i].root_cause = CauseRows[j].root_cause => i = j
        /\ \A i \in 1..Len(CauseRows) :
               /\ CauseRows[i].occurrence_count = Len(EventsOfCause(CauseRows[i].root_cause))
               /\ CauseRows[i].pct_of_stockouts =
                      RoundDec(Rat(100 * Len(EventsOfCause(CauseRows[i].root_cause)),
                                   Len(stockout_events)), 100)
        /\ SumInts([i \in 1..Len(CauseRows) |-> CauseRows[i].occurrence_count])
               = Len(stockout_events)

\* Three causes with one event each: 33.33% each, 99.99% together.
RootCauseThirds ==
    /\ Len(CauseRows) = 3
    /\ \A i \in 1..3 : CauseRows[i].pct_of_stockouts = <<3333, 100>>

\* The line items of the orders of the window of the last ABC call that are
\* not cancelled.
SurvivingLines ==
    SelectSeq(sales_order_items, LAMBDA it :
        \E o \in Range(sales_orders) :
            /\ o.so_id = it.so_id
            /\ o.status # "Cancelled"
            /\ o.order_date >= Max({sales_orders[i].order_date : i \in 1..Len(sales_orders)}) - result.args[1])

AllCancelledInWindow == SurvivingLines = <<>>

NoRevenueInWindow ==
    \A i \in 1..Len(SurvivingLines) :
        SurvivingLines[i].quantity_ordered * SurvivingLines[i].unit_price = 0

\* C25: when every order of the window is cancelled the ABC classification
\* is empty, and when the lines that remain have no revenue every row has a
\* total_revenue of 0 (and, the percentage being 0/0, class C); neither raises.
AbcWithoutRevenue ==
    result.op = "abc" =>
        /\ AllCancelledInWindow => result.ok /\ AbcRows = <<>>
        /\ NoRevenueInWindow =>
               /\ result.ok
               /\ \A i \in 1..Len(AbcRows) :
                      /\ AbcRows[i].total_revenue = <<0, 1>>
                      /\ IsNaN(AbcRows[i].cumulative_pct)
                      /\ AbcRows[i].abc_class = "C"

\* An ABC table of a window with orders that are not cancelled and no revenue.
AbcOfZeroRevenue ==
    /\ result.op = "abc"
    /\ NoRevenueInWindow
    /\ AbcRows # <<>>
    /\ \E o \in Range(sales_orders) : o.status = "Cancelled"

EoqColumnRows == IF result.op = "eoq_columns" /\ result.ok THEN result.rows ELSE <<>>

\* q is an integer nearest to the square root of x: (2q - 1)^2 <= 4x <= (2q + 1)^2.
NearestToSqrt(q, x) ==
    /\ q >= 0
    /\ (q = 0 \/ RLe(Rat((2 * q - 1) * (2 * q - 1), 4), x))
    /\ RLe(x, Rat((2 * q + 1) * (2 * q + 1), 4))

\* A number of the given number of decimals (scale 1 or 10).
HasDecimals(x, scale) == (x[1] * scale) % x[2] = 0

\* C26: eoq is sqrt(2 * D * S / H) rounded to the nearest integer,
\* orders_per_year is D / eoq to one decimal and days_between_orders is 365 /
\* orders_per_year rounded to an integer, wherever the divisor is not 0; for
\* D = 1200, S = 50 and H = 5 the columns are 155, 7.7 and 47.
EoqColumnsFollowFormulas ==
    \A i \in 1..Len(EoqColumnRows) :
        LET r == EoqColumnRows[i]
        IN  /\ NearestToSqrt(r.eoq, RDiv(RInt(2 * r.annual_demand * r.ordering_cost),
                                         r.holding_cost_per_unit))
            /\ r.eoq > 0 =>
                   /\ HasDecimals(r.orders_per_year, 10)
                   /\ Within(r.orders_per_year, Rat(r.annual_demand, r.eoq), <<1, 20>>)
            /\ (r.eoq > 0 /\ r.orders_per_year[1] > 0) =>
                   /\ HasDecimals(r.days_between_orders, 1)
                   /\ Within(r.days_between_orders,
                             RDiv(RInt(365), r.orders_per_year), <<1, 2>>)
            /\ (r.annual_demand = 1200 /\ r.ordering_cost = 50
                    /\ r.holding_cost_per_unit = <<5, 1>>) =>
                   /\ r.eoq = 155
                   /\ r.orders_per_year = <<77, 10>>
                   /\ r.days_between_orders = <<47, 1>>

\* The columns computed for a demand of 1200, an ordering cost of 50 and a
\* holding cost of 5.
EoqScenarioComputed ==
    \E i \in 1..Len(EoqColumnRows) :
        /\ EoqColumnRows[i].annual_demand = 1200
        /\ EoqColumnRows[i].ordering_cost = 50
        /\ EoqColumnRows[i].holding_cost_per_unit = <<5, 1>>
        /\ EoqColumnRows[i].eoq = 155

\* The days of the window of the last reorder point call on which the
\* warehouse and product of a row have a sale in an order not cancelled.
DemandDaysOfRow(r) ==
    {o.order_date : o \in
        {o \in Range(sales_orders) :
            /\ o.status # "Cancelled"
            /\ o.order_date >= Max({sales_orders[i].order_date : i \in 1..Len(sales_orders)})
                                   - result.args[2]
            /\ \E w \in Range(warehouses) :
                   w.warehouse_id = o.warehouse_id /\ w.warehouse_code = r.warehouse_code
            /\ \E it \in Range(sales_order_items) : \E p \in Range(products) :
                   it.so_id = o.so_id /\ p.product_id = it.product_id /\ p.sku = r.sku}}

\* LT * (0.3 d)^2 + d^2 * (0.2 LT)^2 = d^2 * LT * (9 + 4 LT) / 100
SingleDaySquared(avg_daily_demand, lead_time_days) ==
    RMul(RMul(avg_daily_demand, avg_daily_demand),
         Rat(lead_time_days * (9 + 4 * lead_time_days), 100))

\* C27: the reorder points raise only for a z-score that is not finite; in
\* the table returned every safety_stock and calculated_rop is an integer, and
\* a row with a single day of demand has the safety stock of a demand
\* deviation of 30% of its mean daily demand.
SingleDayDeviationDefault ==
    result.op = "rop" =>
        /\ ~result.ok => ~IsFinite(norm_ppf(result.args[1]))
        /\ \A i \in 1..Len(RopRows) :
               /\ RopRows[i].safety_stock \in Int
               /\ RopRows[i].calculated_rop \in Int
               /\ Cardinality(DemandDaysOfRow(RopRows[i])) = 1 =>
                      RopRows[i].safety_stock =
                          SafetyStock(norm_ppf(result.args[1]),
                              SingleDaySquared(RopRows[i].avg_daily_demand,
                                               RopRows[i].avg_lead_time[1]))

\* Reorder points at a service level of 0.95 with a row of a single day of
\* demand and a safety stock above 0.
SingleDayRowComputed ==
    /\ result.op = "rop" /\ result.args[1] = 95000
    /\ \E i \in 1..Len(RopRows) :
           /\ Cardinality(DemandDaysOfRow(RopRows[i])) = 1
           /\ RopRows[i].safety_stock > 0

\* The line items of the Delivered orders of a supplier in the window of the
\* last scores call.
ItemsOfSupplier(supplier_id) ==
    SelectSeq(purchase_order_items, LAMBDA it :
        \E po \in Range(RecentPos(purchase_orders, result.args[1])) :
            po.po_id = it.po_id /\ po.supplier_id = supplier_id)

\* C28: a supplier whose line items of the window have quantity_ordered
\* adding up to 0 makes the scores neither raise nor drop the supplier: its
\* row is returned with a fill_rate and a reliability_score that are not
\* finite.
UnguardedFillRatePropagates ==
    result.op = "scores" =>
        /\ result.ok
        /\ \A su \in Range(suppliers) :
               (/\ ItemsOfSupplier(su.supplier_id) # <<>>
                /\ SumQuantity(ItemsOfSupplier(su.supplier_id)) = 0) =>
                   \E i \in 1..Len(ScoreRows) :
                       /\ ScoreRows[i].supplier_code = su.supplier_code
                       /\ ~IsFinite(ScoreRows[i].fill_rate)
                       /\ ~IsFinite(ScoreRows[i].reliability_score)

\* The scores of two suppliers, the first with nothing ordered on its lines
\* and the second with a fill rate.
ScoresWithUndefinedFillRate ==
    /\ Len(ScoreRows) = 2
    /\ IsNaN(ScoreRows[1].fill_rate) /\ IsNaN(ScoreRows[1].reliability_score)
    /\ IsFinite(ScoreRows[2].fill_rate)

\* The inventory records a turnover call reads that have a product row and a
\* warehouse row.
TurnoverInventory ==
    SelectSeq(InventoryOf(inventory, result.args[1]), LAMBDA r :
        /\ \E p \in Range(products) : p.product_id = r.product_id
        /\ \E w \in Range(warehouses) : w.warehouse_id = r.warehouse_id)

SalesOfRecord(r) ==
    SelectSeq(NonCancelledSales(sales_orders, sales_order_items), LAMBDA s :
        s.warehouse_id = r.warehouse_id /\ s.product_id = r.product_id)

\* C29: every inventory record with a product row and a warehouse row has a
\* row in the turnover table whose inventory_value is quantity_on_hand x the
\* unit_cost of the product; without sales not cancelled at the warehouse its
\* cogs_annual is 0 and its category Dead Stock.
TurnoverValuesEveryRecord ==
    result.op = "turnover" =>
        \A r \in Range(TurnoverInventory) :
            \E i \in 1..Len(TurnoverRows) :
                /\ \E w \in Range(warehouses) :
                       /\ w.warehouse_id = r.warehouse_id
                       /\ w.warehouse_code = TurnoverRows[i].warehouse_code
                /\ \E p \in Range(products) :
                       /\ p.product_id = r.product_id
                       /\ p.sku = TurnoverRows[i].sku
                       /\ TurnoverRows[i].inventory_value =
                              RMul(RInt(r.quantity_on_hand), p.unit_cost)
                /\ SalesOfRecord(r) = <<>> =>
                       /\ TurnoverRows[i].cogs_annual = RInt(0)
                       /\ TurnoverRows[i].turnover_category = "Dead Stock"

ReportedRows == IF result.op = "reported_rows" THEN result.rows ELSE <<>>

\* The rank of the band of a pair of rates: 95/98, 90/95, 80/90.
BandRank(on_time_rate, fill_rate) ==
    IF RGe(on_time_rate, RInt(95)) /\ RGe(fill_rate, RInt(98)) THEN 4
    ELSE IF RGe(on_time_rate, RInt(90)) /\ RGe(fill_rate, RInt(95)) THEN 3
    ELSE IF RGe(on_time_rate, RInt(80)) /\ RGe(fill_rate, RInt(90)) THEN 2
    ELSE 1

\* C30 as stated: the tier of every reported row is the band of its reported
\* rates (95/98 Platinum, 90/95 Gold, 80/90 Silver).
TierOfReportedRates ==
    \A i \in 1..Len(ReportedRows) :
        TierRank(ReportedRows[i].tier)
            = BandRank(ReportedRows[i].on_time_rate, ReportedRows[i].fill_rate)

\* C30 with the rounding: the tier of a reported row is never above the band
\* of its reported rates and never below the band of the reported rates less
\* 0.005.
TierWithinRoundingOfReportedRates ==
    \A i \in 1..Len(ReportedRows) :
        /\ TierRank(ReportedRows[i].tier)
               <= BandRank(ReportedRows[i].on_time_rate, ReportedRows[i].fill_rate)
        /\ TierRank(ReportedRows[i].tier)
               >= BandRank(RSub(ReportedRows[i].on_time_rate, <<1, 200>>),
                           RSub(ReportedRows[i].fill_rate, <<1, 200>>))

\* A row reported with an on_time_rate of 100 and a fill_rate of 98.0 whose
\* tier is Gold.
GoldAtReportedPlatinumRates ==
    \E i \in 1..Len(ReportedRows) :
        /\ ReportedRows[i].on_time_rate = RInt(100)
        /\ ReportedRows[i].fill_rate = RInt(98)
        /\ ReportedRows[i].tier = "Gold"

====
